---------------------------- MODULE Spec2Model ----------------------------
(***************************************************************************)
(* Model of the hl2mp maps downloader: the filter engine, the listing      *)
(* indexer, the availability aggregator, the source ranker, the fetcher    *)
(* (download_file), the decompressor and the pipeline orchestrator         *)
(* (run_pipeline / run_index_only) with its busy-poll bounded task runner. *)
(*                                                                         *)
(* Strings are sequences of one-character strings; the scheme prefix       *)
(* "http://" is one symbol.  A SourceEntry* is an index into sources.      *)
(***************************************************************************)
EXTENDS Integers, Sequences, FiniteSets, TLC

\* ------------------------------------------------------------------ bounds
MaxThreads == 2
MaxRetries == 2

\* ----------------------------------------------------------------- strings
Max(a, b) == IF a >= b THEN a ELSE b

\* Character codes, for the ordering of std::map<std::string, ...> keys.
Ord(c) ==
    CASE c = " " -> 32 [] c = "," -> 44 [] c = "." -> 46 [] c = "/" -> 47
      [] c = "2" -> 50 [] c = "A" -> 65 [] c = "B" -> 66 [] c = "a" -> 97
      [] c = "b" -> 98 [] c = "p" -> 112 [] c = "s" -> 115 [] c = "x" -> 120
      [] c = "y" -> 121 [] c = "z" -> 122 [] OTHER -> 104

RECURSIVE StrLess(_, _)
StrLess(a, b) ==
    IF b = <<>> THEN FALSE
    ELSE IF a = <<>> THEN TRUE
    ELSE IF Ord(Head(a)) # Ord(Head(b)) THEN Ord(Head(a)) < Ord(Head(b))
    ELSE StrLess(Tail(a), Tail(b))

\* The elements of a finite set of strings in ascending order (std::map order).
RECURSIVE SortedSeq(_)
SortedSeq(S) ==
    IF S = {} THEN <<>>
    ELSE LET m == CHOOSE x \in S : \A y \in S \ {x} : StrLess(x, y)
         IN  <<m>> \o SortedSeq(S \ {m})

isspace(c) == c = " "

RECURSIVE trim_front(_)
trim_front(str) ==
    IF str # <<>> /\ isspace(Head(str)) THEN trim_front(Tail(str)) ELSE str

RECURSIVE trim_back(_)
trim_back(str) ==
    IF str # <<>> /\ isspace(str[Len(str)])
    THEN trim_back(SubSeq(str, 1, Len(str) - 1)) ELSE str

trim(str) == trim_back(trim_front(str))

\* A lower-casing that changes nothing.
keep_case(c) == c

tolower(c) == CASE c = "A" -> "a" [] c = "B" -> "b" [] OTHER -> c

lower_copy(str) == [i \in 1..Len(str) |-> tolower(str[i])]

\* A match at the start of the name only.
ContainsAtStart(name, t) == Len(t) <= Len(name) /\ SubSeq(name, 1, Len(t)) = t

\* std::string::find(t) != npos
Contains(name, t) ==
    \E i \in 0..(Len(name) - Len(t)) : SubSeq(name, i + 1, i + Len(t)) = t

ends_with(str, suffix) ==
    /\ Len(suffix) <= Len(str)
    /\ SubSeq(str, Len(str) - Len(suffix) + 1, Len(str)) = suffix

starts_with(str, prefix) ==
    /\ Len(prefix) <= Len(str)
    /\ SubSeq(str, 1, Len(prefix)) = prefix

\* The loop of split_csv_terms over the characters of the trimmed input.
RECURSIVE SplitLoop(_, _, _)
SplitLoop(rest, cur, out) ==
    LET t == trim(cur)
        flushed == IF t # <<>> THEN Append(out, lower_copy(t)) ELSE out
    IN  IF rest = <<>> THEN flushed
        ELSE IF Head(rest) = "," THEN SplitLoop(Tail(rest), <<>>, flushed)
        ELSE SplitLoop(Tail(rest), Append(cur, Head(rest)), out)

split_csv_terms(str) ==
    LET t == trim(str) IN IF t = <<>> THEN <<>> ELSE SplitLoop(t, <<>>, <<>>)

passes_filters(filename, includes, excludes) ==
    LET name == lower_copy(filename)
        hit(ts) == \E i \in 1..Len(ts) : ts[i] # <<>> /\ Contains(name, ts[i])
    IN  /\ (includes # <<>> => hit(includes))
        /\ (excludes # <<>> => ~hit(excludes))


\* -------------------------------------------------------------------- urls
Scheme == "http://"
DotBsp == <<".", "b", "s", "p">>
DotBz2 == <<".", "b", "z", "2">>
DotPart == <<".", "p", "a", "r", "t">>

url_join(base, rel) ==
    IF rel # <<>> /\ Head(rel) = Scheme THEN rel
    ELSE IF base = <<>> THEN rel
    ELSE IF base[Len(base)] = "/" /\ rel # <<>> /\ Head(rel) = "/"
         THEN base \o Tail(rel)
    ELSE IF base[Len(base)] # "/" /\ rel # <<>> /\ Head(rel) # "/"
         THEN base \o <<"/">> \o rel
    ELSE base \o rel

\* fs::path( u ).filename(): what follows the last separator.
RECURSIVE LastSlash(_, _)
LastSlash(u, i) == IF i = 0 \/ u[i] = "/" THEN i ELSE LastSlash(u, i - 1)

filename(u) == SubSeq(u, LastSlash(u, Len(u)) + 1, Len(u))

\* fs::path::extension(): from the last dot of the filename (none for a
\* filename without a dot or with only a leading dot).
RECURSIVE LastDotUpTo(_, _)
LastDotUpTo(n, i) == IF i = 0 \/ n[i] = "." THEN i ELSE LastDotUpTo(n, i - 1)

LastDot(n) == LastDotUpTo(n, Len(n))

extension(p) ==
    LET n == filename(p)
        d == LastDot(n)
    IN  IF d <= 1 THEN <<>> ELSE SubSeq(n, d, Len(n))

\* path::replace_extension( "" )
strip_extension(p) == SubSeq(p, 1, Len(p) - Len(extension(p)))

\* std::unique: drops an element equal to the one kept just before it.
RECURSIVE std_unique(_)
std_unique(v) ==
    IF Len(v) <= 1 THEN v
    ELSE IF v[1] = v[2] THEN std_unique(Tail(v))
    ELSE <<v[1]>> \o std_unique(Tail(v))

\* The regex loop of extract_map_links_from_index_html; html is the sequence
\* of anchor targets the href regex matches, in document order.
RECURSIVE ExtractLoop(_, _)
ExtractLoop(base_url, html) ==
    IF html = <<>> THEN <<>>
    ELSE LET href == trim(Head(html))
             low == lower_copy(href)
             rest == ExtractLoop(base_url, Tail(html))
         IN  IF href = <<>> THEN rest
             ELSE IF href[Len(href)] = "/" THEN rest
             ELSE IF ~(ends_with(low, DotBsp) \/ ends_with(low, DotBz2)) THEN rest
             ELSE <<url_join(base_url, href)>> \o rest

extract_map_links_from_index_html(base_url, html) ==
    std_unique(ExtractLoop(base_url, html))

\* ------------------------------------------------- aggregation and ranking
\* indexed: sequence of SourceIndex [src, links]; src is an index into srcs.
RECURSIVE LinksNamed(_, _, _)
LinksNamed(links, name, src) ==
    IF links = <<>> THEN <<>>
    ELSE (IF filename(Head(links)) = name THEN <<src>> ELSE <<>>)
         \o LinksNamed(Tail(links), name, src)

\* An aggregation that takes every indexed record, whatever its source's
\* enabled and last_ok fields say.
ContributesUnchecked(si, srcs) == si.src \in 1..Len(srcs)

Contributes(si, srcs) ==
    /\ si.src \in 1..Len(srcs)
    /\ srcs[si.src].enabled
    /\ srcs[si.src].last_ok

RECURSIVE AvailFor(_, _, _)
AvailFor(indexed, srcs, name) ==
    IF indexed = <<>> THEN <<>>
    ELSE (IF Contributes(Head(indexed), srcs)
          THEN LinksNamed(Head(indexed).links, name, Head(indexed).src)
          ELSE <<>>)
         \o AvailFor(Tail(indexed), srcs, name)

build_availability(indexed, srcs) ==
    LET good == { k \in 1..Len(indexed) : Contributes(indexed[k], srcs) }
        names == UNION { { filename(indexed[i].links[j]) :
                             j \in 1..Len(indexed[i].links) } : i \in good }
    IN  [n \in names |-> AvailFor(indexed, srcs, n)]

Sentinel == 1000000

\* A selection loop in which a later candidate also wins a tie.
RECURSIVE PickLoopLastWins(_, _, _)
PickLoopLastWins(rest, best, srcs) ==
    IF rest = <<>> THEN best
    ELSE LET ssrc == Head(rest)
             a == IF srcs[ssrc].last_latency_ms >= 0
                  THEN srcs[ssrc].last_latency_ms ELSE Sentinel
             b == IF srcs[best].last_latency_ms >= 0
                  THEN srcs[best].last_latency_ms ELSE Sentinel
         IN  IF best = 0 THEN PickLoopLastWins(Tail(rest), ssrc, srcs)
             ELSE PickLoopLastWins(Tail(rest), IF a <= b THEN ssrc ELSE best, srcs)

RECURSIVE PickLoop(_, _, _)
PickLoop(rest, best, srcs) ==
    IF rest = <<>> THEN best
    ELSE LET ssrc == Head(rest)
             a == IF srcs[ssrc].last_latency_ms >= 0
                  THEN srcs[ssrc].last_latency_ms ELSE Sentinel
             b == IF srcs[best].last_latency_ms >= 0
                  THEN srcs[best].last_latency_ms ELSE Sentinel
         IN  IF best = 0 THEN PickLoop(Tail(rest), ssrc, srcs)
             ELSE PickLoop(Tail(rest), IF a < b THEN ssrc ELSE best, srcs)

\* A selection that takes the first candidate whatever the latencies.
pick_first_source(cands, srcs) == IF cands = <<>> THEN 0 ELSE Head(cands)

\* 0 stands for nullptr.
pick_best_source(cands, srcs) == PickLoop(cands, 0, srcs)


\* ------------------------------------------------------------------- world
UrlX == <<Scheme, "x", "/">>
UrlY == <<Scheme, "y", "/">>
FileA == <<"a">> \o DotBsp
FileB == <<"b">> \o DotBsp \o DotBz2
FileC == <<"B">> \o DotBz2

Names == {FileA, FileB, FileC}
Phases == {"indexing", "downloading", "decompressing", "deleting"}

\* A file of the target directory tree: absent, or what it holds.
FileOf(kind, url, att) == [kind |-> kind, url |-> url, att |-> att]
NoFile == FileOf("none", <<>>, 0)
OldFile == FileOf("old", <<>>, 0)
Exists(f) == f.kind # "none"
TmpOf(out_file) == out_file \o DotPart
Paths == Names \cup { strip_extension(n) : n \in Names } \cup { TmpOf(n) : n \in Names }

VARIABLES
    sources,        \* main: std::vector<SourceEntry> sources
    remote,         \* per source url, the anchor targets its listing serves
    s,              \* Settings (the by-value copy a run works on)
    faults,         \* whether filesystem calls on the target tree may fail
    disk,           \* files under hl2mp/download/maps (and maps), by name
    cancel,         \* RunState::cancel
    existing_files, \* RunState::existing_files
    phase,          \* the four PhaseProgress records
    last,           \* RunState::last_* summary counters
    running,        \* main: std::atomic<bool> running
    runs,           \* runs started so far
    pc,             \* position of the runner thread
    loc,            \* locals of run_pipeline / run_index_only
    wk,             \* the std::async work items of the phase being run
    dl,             \* activations of download_file, by destination name
    bz,             \* activations of decompress_bz2_to_file, by archive name
    failures,       \* LiveLog::failures (as a set of entries)
    report,         \* the closing status line of the run in LiveLog::lines
    log,            \* LiveLog as a container: lines and failures as appended
    hist            \* history of the run (observation only)

vars == <<sources, remote, s, faults, disk, cancel, existing_files, phase, last,
          running, runs, pc, loc, wk, dl, bz, failures, report, log, hist>>

MaxRuns == 1

ZeroPhase == [running |-> FALSE, done |-> 0, total |-> 0]
ZeroLast == [remote_unique |-> 0, remote_after_filters |-> 0,
             already_have |-> 0, to_download |-> 0]

LocIdle == [mode |-> "none", ph |-> "none", enabled |-> <<>>, includes |-> <<>>,
            excludes |-> <<>>, indexed |-> <<>>, availability |-> <<>>,
            counts |-> ZeroLast, to_get |-> <<>>, items |-> <<>>,
            i |-> 1, in_flight |-> 0]

DlOff == [pc |-> "off", url |-> <<>>, attempt |-> 0, retries |-> 0, result |-> FALSE,
          cancel0 |-> FALSE, opened |-> 0, dest0 |-> NoFile, tmp0 |-> NoFile]
BzOff == [pc |-> "off", attempt |-> 0, retries |-> 0, bzerr |-> "BZ_OK",
          chunks |-> 0, result |-> FALSE]

\* No listing request answered yet.
NoAnswer == [err |-> FALSE, status |-> 0, ms |-> -1]

\* hist.answer keeps the answer each source's listing request got, for the
\* sources a specification sets it up for (none here). hist.stale holds the
\* SourceEntry pointers an edit of the source list has invalidated since the
\* run started, hist.wild whether one of them has been dereferenced,
\* hist.active the runner threads that exist, where a specification counts
\* them.
HistInit == [cancelAt |-> "none", sawCancel |-> FALSE,
             gets |-> <<0, 0>>, answer |-> <<>>,
             fetched |-> <<>>, started |-> {}, unpacked |-> {},
             edits |-> 0, stale |-> {}, wild |-> FALSE, active |-> 0,
             lat0 |-> <<0, 0>>, snap |-> [n \in {} |-> NoFile]]

Source(url, enabled, lat) ==
    [url |-> url, enabled |-> enabled, last_latency_ms |-> lat, last_ok |-> FALSE]

Setting(path_ok, threads, decompress, delete_bz2, retries, inc, exc) ==
    [hl2mp_path_ok |-> path_ok, threads |-> threads, decompress |-> decompress,
     delete_bz2 |-> delete_bz2, retries |-> retries,
     include_filters |-> inc, exclude_filters |-> exc]

EmptyDisk == [p \in Paths |-> NoFile]

\* LiveLog after construction; pushed and failed count the calls made (the
\* k-th line appended is the number k).
EmptyLog == [lines |-> <<>>, failures |-> <<>>, pushed |-> 0, failed |-> 0]
DiskWith(S) == [p \in Paths |-> IF p \in S THEN OldFile ELSE NoFile]

TypeOK ==
    /\ cancel \in BOOLEAN
    /\ running \in BOOLEAN
    /\ runs \in 0..(MaxRuns + 1)
    /\ \A ph \in Phases : phase[ph].running \in BOOLEAN
    /\ DOMAIN disk = Paths
    /\ DOMAIN dl = Names


\* ------------------------------------------------------------ initial state
Latencies == {30, 200}
IndexStatuses == {200, 399, 400}
DlStatuses == {200, 299, 300, 500}

\* Source A (UrlX) was last seen at 30 ms, source B (UrlY) at 200 ms.
Srcs(e1, e2) == <<Source(UrlX, e1, 30), Source(UrlY, e2, 200)>>

\* Both sources list the same file / two files, one of them on both.
RemoteBoth == [u \in {UrlX, UrlY} |-> <<FileB>>]
RemoteTwo == [u \in {UrlX, UrlY} |-> IF u = UrlX THEN <<FileA, FileB>> ELSE <<FileA>>]

Plain(threads, decompress, delete_bz2, retries) ==
    Setting(TRUE, threads, decompress, delete_bz2, retries, <<>>, <<>>)

Config(srcs, rem, dsk, set, flt) ==
    [sources |-> srcs, remote |-> rem, disk |-> dsk, s |-> set, faults |-> flt]

\* The situations a run is started in.
Configs ==
    { Config(Srcs(TRUE, TRUE), RemoteTwo, EmptyDisk, Plain(th, TRUE, TRUE, 1), FALSE) :
        th \in 1..MaxThreads }
    \cup { Config(Srcs(TRUE, TRUE), RemoteBoth, EmptyDisk,
                  Plain(MaxThreads, dec, dec, MaxRetries), flt) :
             dec \in BOOLEAN, flt \in BOOLEAN }
    \cup { Config(Srcs(TRUE, TRUE), RemoteBoth, DiskWith({FileC}),
                  Plain(th, TRUE, th = 1, 1), FALSE) : th \in 1..MaxThreads }
    \cup { Config(Srcs(TRUE, TRUE), RemoteBoth, DiskWith({FileB}),
                  Plain(MaxThreads, TRUE, TRUE, 1), FALSE),
           Config(Srcs(TRUE, FALSE), RemoteBoth, EmptyDisk, Plain(1, TRUE, FALSE, 0), FALSE),
           Config(Srcs(FALSE, TRUE), RemoteTwo, EmptyDisk, Plain(1, FALSE, TRUE, 1), TRUE),
           Config(Srcs(FALSE, FALSE), RemoteBoth, EmptyDisk, Plain(1, FALSE, FALSE, 1), FALSE),
           Config(Srcs(TRUE, TRUE), RemoteBoth, EmptyDisk,
                  Setting(FALSE, 1, FALSE, FALSE, 1, <<>>, <<>>), FALSE) }

\* The progress records as an earlier, completed run over two sources and one
\* archive left them.
StalePhases ==
    [ph \in Phases |-> [running |-> FALSE,
                        done |-> IF ph = "indexing" THEN 2 ELSE 1,
                        total |-> IF ph = "indexing" THEN 2 ELSE 1]]

Idle ==
    /\ existing_files = {}
    /\ last = ZeroLast
    /\ running = FALSE
    /\ runs = 0
    /\ pc = "idle"
    /\ loc = LocIdle
    /\ wk = <<>>
    /\ dl = [n \in Names |-> DlOff]
    /\ bz = [n \in Names |-> BzOff]
    /\ failures = {}
    /\ report = "none"
    /\ log = EmptyLog
    /\ hist = HistInit

Init ==
    /\ \E c \in Configs :
         /\ sources = c.sources
         /\ remote = c.remote
         /\ s = c.s
         /\ faults = c.faults
         /\ disk = c.disk
    /\ cancel = FALSE
    /\ phase \in {[ph \in Phases |-> ZeroPhase], StalePhases}
    /\ Idle

\* ---------------------------------------------------------------- UI thread
\* start_btn / index_btn: ignored while a run is active; otherwise clear the
\* flag, mark running, join the previous runner and start the new one.
CurPhase ==
    IF \E ph \in Phases : phase[ph].running
    THEN CHOOSE ph \in Phases : phase[ph].running ELSE "none"

StartRun(mode) ==
    /\ ~running
    /\ runs < MaxRuns
    /\ pc = "idle"
    /\ cancel' = FALSE
    /\ running' = TRUE
    /\ runs' = runs + 1
    /\ pc' = "entry"
    /\ loc' = [LocIdle EXCEPT !.mode = mode]
    /\ report' = "none"
    /\ hist' = [HistInit EXCEPT
                  !.lat0 = [i \in 1..Len(sources) |-> sources[i].last_latency_ms],
                  !.snap = disk]
    /\ UNCHANGED <<sources, remote, s, faults, disk, existing_files, phase, last,
                   wk, dl, bz, failures, log>>

start_btn == StartRun("pipeline")
index_btn == StartRun("index")

cancel_btn ==
    /\ ~cancel
    /\ cancel' = TRUE
    /\ hist' = [hist EXCEPT !.cancelAt = IF pc \in {"idle", "entry"} THEN @ ELSE
                                           IF CurPhase # "none" THEN CurPhase ELSE pc]
    /\ UNCHANGED <<sources, remote, s, faults, disk, existing_files, phase, last,
                   running, runs, pc, loc, wk, dl, bz, failures, report, log>>


\* ------------------------------------------------------------ runner thread
\* What the runner leaves alone outside its own locals.
RunnerKeeps == <<sources, remote, s, faults, running, runs, dl, bz, log>>

Threads == Max(1, s.threads)

\* rs.cancel.store( false ) on entry of run_pipeline / run_index_only.
RunEntry ==
    /\ pc = "entry"
    /\ cancel' = FALSE
    /\ pc' = "reset"
    /\ UNCHANGED <<RunnerKeeps, disk, existing_files, phase, last, loc, wk,
                   failures, report, hist>>

\* The order of the phases in reset_phases and in a run.
PhaseOrder == <<"indexing", "downloading", "decompressing", "deleting">>

\* A reset that stores total before done.
ResetTotalFirst == <<"running", "total", "done">>

\* The three stores reset_phases makes for each phase, in its order.
ResetFields == <<"running", "done", "total">>

\* reset_phases, one atomic store at a time (the progress display reads the
\* counters while it runs); loc.i counts the stores made.
reset_phases ==
    /\ pc = "reset"
    /\ LET ph == PhaseOrder[((loc.i - 1) \div 3) + 1]
           fld == ResetFields[((loc.i - 1) % 3) + 1]
       IN  phase' = [phase EXCEPT ![ph] =
                       [@ EXCEPT ![fld] = IF fld = "running" THEN FALSE ELSE 0]]
    /\ IF loc.i = 3 * Len(PhaseOrder)
       THEN /\ pc' = "pre"
            /\ loc' = [loc EXCEPT !.i = LocIdle.i]
       ELSE /\ pc' = "reset"
            /\ loc' = [loc EXCEPT !.i = @ + 1]
    /\ UNCHANGED <<RunnerKeeps, disk, cancel, existing_files, last, wk,
                   failures, report, hist>>

\* scan_existing_maps: names of the regular files with extension .bsp/.bz2.
ScanResult(d) ==
    { p \in Paths : Exists(d[p]) /\ lower_copy(extension(p)) \in {DotBsp, DotBz2} }

\* A selection that takes every source, enabled or not.
EverySource(srcs) == [i \in 1..Len(srcs) |-> i]

EnabledOf(srcs) == SelectSeq([i \in 1..Len(srcs) |-> i], LAMBDA i : srcs[i].enabled)

Abort(entry) ==
    /\ failures' = failures \cup {entry}
    /\ report' = "aborted"
    /\ pc' = "ret"

\* The preconditions of a run, up to the filter terms.
RunPre ==
    /\ pc = "pre"
    /\ \E mkdir_ok \in (IF faults /\ loc.mode = "pipeline" THEN BOOLEAN ELSE {TRUE}) :
         IF ~s.hl2mp_path_ok
         THEN /\ Abort(<<"PATH", <<>>>>)
              /\ UNCHANGED <<existing_files, loc>>
         ELSE IF ~mkdir_ok
         THEN /\ Abort(<<"MKDIR", <<>>>>)
              /\ UNCHANGED <<existing_files, loc>>
         ELSE /\ existing_files' = ScanResult(disk)
              /\ IF EnabledOf(sources) = <<>>
                 THEN /\ Abort(<<"NOSRC", <<>>>>)
                      /\ UNCHANGED loc
                 ELSE /\ loc' = [loc EXCEPT
                                   !.enabled = EnabledOf(sources),
                                   !.includes = split_csv_terms(s.include_filters),
                                   !.excludes = split_csv_terms(s.exclude_filters)]
                      /\ pc' = "idx_start"
                      /\ UNCHANGED <<failures, report>>
    /\ UNCHANGED <<RunnerKeeps, disk, cancel, phase, last, wk, hist>>

\* running.store( true ); done.store( 0 ); total.store( n ) and the fresh
\* in-flight counter and future list of a parallel phase.
BeginPhase(ph, items) ==
    /\ phase' = [phase EXCEPT ![ph] = [running |-> TRUE, done |-> 0, total |-> Len(items)]]
    /\ loc' = [loc EXCEPT !.ph = ph, !.items = items, !.i = 1, !.in_flight = 0]
    /\ wk' = [k \in 1..Len(items) |-> "idle"]
    /\ hist' = [hist EXCEPT !.sawCancel = FALSE, !.started = @ \cup {ph}]
    /\ pc' = IF items = <<>> THEN "join" ELSE "poll"

IndexStart ==
    /\ pc = "idx_start"
    /\ BeginPhase("indexing", loc.enabled)
    /\ UNCHANGED <<RunnerKeeps, disk, cancel, existing_files, last, failures, report>>

\* An admission loop that lets every item through at once (no cap).
AdmitUncapped == TRUE

\* The admission loop: while ( !cancel ) { if ( in_flight < threads ) break; sleep }
Admit == cancel \/ loc.in_flight < Threads

Poll ==
    /\ pc = "poll"
    /\ Admit
    /\ pc' = "chk"
    /\ hist' = [hist EXCEPT !.sawCancel = cancel]
    /\ UNCHANGED <<RunnerKeeps, disk, cancel, existing_files, phase, last, loc, wk,
                   failures, report>>

\* A launcher that does not look at the flag after the admission loop.
LaunchRegardless == FALSE

\* A launcher that also stops once an item has failed.
StopOnFailure == cancel \/ failures # {}

\* if ( cancel ) break;
StopOnCancel == cancel

\* ... else in_flight.fetch_add( 1 ) and std::async of the item's body.
Launch ==
    /\ pc = "chk"
    /\ IF StopOnCancel
       THEN /\ pc' = "join"
            /\ hist' = [hist EXCEPT !.sawCancel = TRUE]
            /\ UNCHANGED <<loc, wk>>
       ELSE /\ loc' = [loc EXCEPT !.in_flight = @ + 1, !.i = @ + 1]
            /\ wk' = [wk EXCEPT ![loc.i] = "body"]
            /\ pc' = IF loc.i = Len(loc.items) THEN "join" ELSE "poll"
            /\ UNCHANGED hist
    /\ UNCHANGED <<RunnerKeeps, disk, cancel, existing_files, phase, last,
                   failures, report>>

\* A runner that does not wait for its futures.
NoWait == TRUE

\* A runner that waits for every item of the phase, launched or not.
AllFinished == \A k \in DOMAIN wk : wk[k] = "fin"

\* for ( auto &f : futs ) f.wait();
AllJoined == \A k \in DOMAIN wk : wk[k] \in {"idle", "fin"}

\* A sequencing that begins the download phase again after it has ended.
AfterPhaseAgain(ph) ==
    CASE ph = "indexing" -> "recon"
      [] ph = "downloading" -> "dl_start"
      [] OTHER -> "del_chk"

AfterPhase(ph) ==
    CASE ph = "indexing" -> "recon"
      [] ph = "downloading" -> "dl_chk"
      [] OTHER -> "del_chk"

\* ... then running.store( false ).
Join ==
    /\ pc = "join"
    /\ AllJoined
    /\ phase' = [phase EXCEPT ![loc.ph].running = FALSE]
    /\ pc' = AfterPhase(loc.ph)
    /\ UNCHANGED <<RunnerKeeps, disk, cancel, existing_files, last, loc, wk,
                   failures, report, hist>>


\* Reconciliation: the loop over the availability map in key order (indexed
\* is not read again and is dropped here).
Filtered(av, inc, exc) == { n \in DOMAIN av : passes_filters(n, inc, exc) }

\* A reconciliation that does not consult the local file set.
ReconcileBlind(av, inc, exc, have) ==
    [remote_unique |-> Cardinality(DOMAIN av),
     remote_after_filters |-> Cardinality(Filtered(av, inc, exc)),
     already_have |-> 0,
     to_download |-> Cardinality(Filtered(av, inc, exc))]

Reconcile(av, inc, exc, have) ==
    [remote_unique |-> Cardinality(DOMAIN av),
     remote_after_filters |-> Cardinality(Filtered(av, inc, exc)),
     already_have |-> Cardinality(Filtered(av, inc, exc) \cap have),
     to_download |-> Cardinality(Filtered(av, inc, exc) \ have)]

\* A worklist that takes every listed file that is absent locally, filtered
\* or not.
ToGetUnfiltered(av, inc, exc, have) == SortedSeq(DOMAIN av \ have)

\* A worklist that also takes the files that are present locally.
ToGetPresentToo(av, inc, exc, have) == SortedSeq(Filtered(av, inc, exc))

ToGet(av, inc, exc, have) == SortedSeq(Filtered(av, inc, exc) \ have)

Recon ==
    /\ pc = "recon"
    /\ LET av == build_availability(loc.indexed, sources)
       IN  loc' = [loc EXCEPT
                     !.indexed = <<>>,
                     !.availability = av,
                     !.counts = Reconcile(av, loc.includes, loc.excludes, existing_files),
                     !.to_get = IF loc.mode = "pipeline"
                                THEN ToGet(av, loc.includes, loc.excludes, existing_files)
                                ELSE <<>>]
    /\ pc' = "store1"
    /\ UNCHANGED <<RunnerKeeps, disk, cancel, existing_files, phase, last, wk,
                   failures, report, hist>>

\* The four rs.last_*.store( ... ) calls, one atomic store each.
StoreKeeps == <<RunnerKeeps, disk, cancel, existing_files, phase, loc, wk, failures, hist>>

Store1 ==
    /\ pc = "store1"
    /\ last' = [last EXCEPT !.remote_unique = loc.counts.remote_unique]
    /\ pc' = "store2"
    /\ UNCHANGED <<StoreKeeps, report>>

Store2 ==
    /\ pc = "store2"
    /\ last' = [last EXCEPT !.remote_after_filters = loc.counts.remote_after_filters]
    /\ pc' = "store3"
    /\ UNCHANGED <<StoreKeeps, report>>

Store3 ==
    /\ pc = "store3"
    /\ last' = [last EXCEPT !.already_have = loc.counts.already_have]
    /\ pc' = "store4"
    /\ UNCHANGED <<StoreKeeps, report>>

\* run_index_only ends after the last store ("[i] Index complete.").
Store4 ==
    /\ pc = "store4"
    /\ last' = [last EXCEPT !.to_download = loc.counts.to_download]
    /\ pc' = IF loc.mode = "index" THEN "ret" ELSE "dl_start"
    /\ report' = IF loc.mode = "index" THEN "index_complete" ELSE report
    /\ UNCHANGED StoreKeeps

DownloadStart ==
    /\ pc = "dl_start"
    /\ BeginPhase("downloading", loc.to_get)
    /\ UNCHANGED <<RunnerKeeps, disk, cancel, existing_files, last, failures, report>>

\* A pipeline without the check after the download phase.
NoCheckAfterDownload == FALSE

\* if ( rs.cancel.load() ) { "[i] Cancelled."; return; }
CancelledAfterDownload == cancel

AfterDownload ==
    /\ pc = "dl_chk"
    /\ IF CancelledAfterDownload
       THEN /\ report' = "cancelled"
            /\ pc' = "ret"
       ELSE /\ pc' = IF s.decompress THEN "bz_list" ELSE "done"
            /\ UNCHANGED report
    /\ UNCHANGED <<RunnerKeeps, disk, cancel, existing_files, phase, last, loc, wk,
                   failures, hist>>

\* The sequences that list each element of a finite set once, in any order
\* (fs::directory_iterator promises none).
RECURSIVE Orders(_)
Orders(S) ==
    IF S = {} THEN {<<>>}
    ELSE UNION { { <<x>> \o r : r \in Orders(S \ {x}) } : x \in S }

Bz2sOf(d) == { p \in Paths : Exists(d[p]) /\ lower_copy(extension(p)) = DotBz2 }

DecompressStart ==
    /\ pc = "bz_list"
    /\ \E bz2s \in Orders(Bz2sOf(disk)) :
         BeginPhase("decompressing", bz2s)
    /\ UNCHANGED <<RunnerKeeps, disk, cancel, existing_files, last, failures, report>>

\* if ( s.delete_bz2 && !rs.cancel.load() ): the deleting phase runs on the
\* runner thread itself; loc.items still is bz2s.
DeleteStart ==
    /\ pc = "del_chk"
    /\ IF s.delete_bz2 /\ ~cancel
       THEN /\ phase' = [phase EXCEPT !["deleting"] =
                           [running |-> TRUE, done |-> 0, total |-> Len(loc.items)]]
            /\ loc' = [loc EXCEPT !.ph = "deleting", !.i = 1]
            /\ hist' = [hist EXCEPT !.started = @ \cup {"deleting"}]
            /\ pc' = "del_loop"
       ELSE /\ pc' = "done"
            /\ UNCHANGED <<phase, loc, hist>>
    /\ UNCHANGED <<RunnerKeeps, disk, cancel, existing_files, last, wk, failures, report>>

DeleteStep ==
    /\ pc = "del_loop"
    /\ IF loc.i > Len(loc.items) \/ cancel
       THEN /\ phase' = [phase EXCEPT !["deleting"].running = FALSE]
            /\ pc' = "done"
            /\ UNCHANGED <<disk, loc, failures>>
       ELSE \E rm_ok \in (IF faults THEN BOOLEAN ELSE {TRUE}) :
            /\ disk' = IF rm_ok THEN [disk EXCEPT ![loc.items[loc.i]] = NoFile] ELSE disk
            /\ failures' = IF rm_ok THEN failures
                           ELSE failures \cup {<<"DEL", loc.items[loc.i]>>}
            /\ phase' = [phase EXCEPT !["deleting"].done = @ + 1]
            /\ loc' = [loc EXCEPT !.i = @ + 1]
            /\ pc' = "del_loop"
    /\ UNCHANGED <<RunnerKeeps, cancel, existing_files, last, wk, report, hist>>

\* log.push( "[i] Done." )
RunDone ==
    /\ pc = "done"
    /\ report' = "done"
    /\ pc' = "ret"
    /\ UNCHANGED <<RunnerKeeps, disk, cancel, existing_files, phase, last, loc, wk,
                   failures, hist>>

\* The runner lambda after the run: save_sources, write_session_log,
\* running.store( false ); the thread ends.
RunnerExit ==
    /\ pc = "ret"
    /\ running' = FALSE
    /\ pc' = "idle"
    /\ UNCHANGED <<sources, remote, s, faults, disk, cancel, existing_files, phase,
                   last, runs, loc, wk, dl, bz, failures, report, log, hist>>


\* ------------------------------------------------------------- work items
WorkerKeeps == <<remote, s, faults, cancel, existing_files, last, running, runs, pc, report,
                log>>

\* The answers a listing GET can get: a transport error (status stays 0) or a
\* status, after ms milliseconds.
HttpResults ==
    { [err |-> TRUE, status |-> 0, ms |-> ms] : ms \in Latencies }
    \cup { [err |-> FALSE, status |-> st, ms |-> ms] : st \in IndexStatuses, ms \in Latencies }

\* A success test that looks at the transport result only.
IndexOkAnyStatus(r) == ~r.err

IndexOk(r) == ~r.err /\ r.status >= 200 /\ r.status < 400

\* The indexing item: worker_index( src ) (one GET, the source's fields, the
\* SourceIndex pushed under idx_mtx, indexing.done.fetch_add( 1 )) and then
\* in_flight.fetch_sub( 1 ).
worker_index(k) ==
    /\ k \in DOMAIN wk
    /\ loc.ph = "indexing"
    /\ wk[k] = "body"
    /\ \E r \in HttpResults :
         LET src == loc.items[k]
             url == sources[src].url
             si == [src |-> src,
                    links |-> IF IndexOk(r)
                              THEN extract_map_links_from_index_html(url, remote[url])
                              ELSE <<>>]
         IN  /\ sources' = [sources EXCEPT ![src].last_latency_ms = r.ms,
                                           ![src].last_ok = IndexOk(r)]
             /\ failures' = IF IndexOk(r) THEN failures ELSE failures \cup {<<"IDX", url>>}
             /\ loc' = [loc EXCEPT !.indexed = Append(@, si), !.in_flight = @ - 1]
             /\ hist' = [hist EXCEPT
                           !.gets = IF src \in DOMAIN @ THEN [@ EXCEPT ![src] = @ + 1] ELSE @,
                           !.answer = IF src \in DOMAIN @ THEN [@ EXCEPT ![src] = r] ELSE @]
    /\ phase' = [phase EXCEPT !["indexing"].done = @ + 1]
    /\ wk' = [wk EXCEPT ![k] = "fin"]
    /\ UNCHANGED <<WorkerKeeps, disk, dl, bz>>

\* A fresh activation of download_file( url, out_file, ..., retries, cancel ):
\* attempt = 1; cancel0, opened, dest0 and tmp0 only record what the call
\* found and did.
Activation(url, out_file, retries) ==
    [DlOff EXCEPT !.pc = "head", !.url = url, !.attempt = 1, !.retries = retries,
                  !.cancel0 = cancel, !.dest0 = disk[out_file],
                  !.tmp0 = disk[TmpOf(out_file)]]

\* The download item up to its call of download_file.
DownloadBody(k) ==
    /\ k \in DOMAIN wk
    /\ loc.ph = "downloading"
    /\ wk[k] = "body"
    /\ LET name == loc.items[k]
           best == pick_best_source(loc.availability[name], sources)
           url == url_join(sources[best].url, name)
       IN  IF best = 0
           THEN /\ failures' = failures \cup {<<"DL_NOSRC", name>>}
                /\ phase' = [phase EXCEPT !["downloading"].done = @ + 1]
                /\ loc' = [loc EXCEPT !.in_flight = @ - 1]
                /\ wk' = [wk EXCEPT ![k] = "fin"]
                /\ UNCHANGED <<dl, hist>>
           ELSE /\ dl' = [dl EXCEPT ![name] =
                            Activation(url, name, s.retries)]
                /\ hist' = [hist EXCEPT !.fetched = Append(@, [name |-> name, src |-> best, url |-> url])]
                /\ wk' = [wk EXCEPT ![k] = "call"]
                /\ UNCHANGED <<failures, phase, loc>>
    /\ UNCHANGED <<WorkerKeeps, sources, disk, bz>>

\* ... and after it, on either result: downloading.done.fetch_add( 1 ) and
\* dl_inflight.fetch_sub( 1 ).
DownloadDone(k) ==
    /\ k \in DOMAIN wk
    /\ loc.ph = "downloading"
    /\ wk[k] = "call"
    /\ dl[loc.items[k]].pc = "ret"
    /\ dl' = [dl EXCEPT ![loc.items[k]] = DlOff]
    /\ phase' = [phase EXCEPT !["downloading"].done = @ + 1]
    /\ loc' = [loc EXCEPT !.in_flight = @ - 1]
    /\ wk' = [wk EXCEPT ![k] = "fin"]
    /\ UNCHANGED <<WorkerKeeps, sources, disk, bz, failures, hist>>

DecompressBody(k) ==
    /\ k \in DOMAIN wk
    /\ loc.ph = "decompressing"
    /\ wk[k] = "body"
    /\ bz' = [bz EXCEPT ![loc.items[k]] =
                [BzOff EXCEPT !.pc = "head", !.attempt = 1, !.retries = s.retries]]
    /\ wk' = [wk EXCEPT ![k] = "call"]
    /\ UNCHANGED <<WorkerKeeps, sources, disk, phase, loc, dl, failures, hist>>

DecompressDone(k) ==
    /\ k \in DOMAIN wk
    /\ loc.ph = "decompressing"
    /\ wk[k] = "call"
    /\ bz[loc.items[k]].pc = "ret"
    /\ bz' = [bz EXCEPT ![loc.items[k]] = BzOff]
    /\ phase' = [phase EXCEPT !["decompressing"].done = @ + 1]
    /\ loc' = [loc EXCEPT !.in_flight = @ - 1]
    /\ wk' = [wk EXCEPT ![k] = "fin"]
    /\ hist' = [hist EXCEPT !.unpacked = IF bz[loc.items[k]].result
                                         THEN @ \cup {loc.items[k]} ELSE @]
    /\ UNCHANGED <<WorkerKeeps, sources, disk, dl, failures>>


\* ------------------------------------------------------------ download_file
DlKeeps == <<sources, remote, s, faults, existing_files, phase, last, running, runs,
             pc, loc, wk, bz, report, log, hist>>

\* A retry loop that tests the budget only.
MayAttemptBlind(a) == a.attempt <= a.retries

\* for ( attempt = 1; attempt <= retries && !cancel.load(); ++attempt )
MayAttempt(a) == a.attempt <= a.retries /\ ~cancel

MayFail == IF faults THEN BOOLEAN ELSE {TRUE}

\* The loop test and, when it lets the attempt start: a stale .part is
\* removed, then fopen( tmp, "wb" ).
DlHead(n) ==
    /\ dl[n].pc = "head"
    /\ \E fopen_ok \in MayFail :
         IF ~MayAttempt(dl[n])
         THEN /\ dl' = [dl EXCEPT ![n].pc = "ret", ![n].result = FALSE]
              /\ UNCHANGED <<disk, failures>>
         ELSE IF fopen_ok
         THEN /\ disk' = [disk EXCEPT ![TmpOf(n)] = FileOf("empty", dl[n].url, dl[n].attempt)]
              /\ dl' = [dl EXCEPT ![n].pc = "perform", ![n].opened = @ + 1]
              /\ UNCHANGED failures
         ELSE /\ disk' = [disk EXCEPT ![TmpOf(n)] = NoFile]
              /\ failures' = failures \cup {<<"DL_OPEN", n>>}
              /\ dl' = [dl EXCEPT ![n].pc = "ret", ![n].result = FALSE]
    /\ UNCHANGED <<DlKeeps, cancel>>

\* What curl_easy_perform and CURLINFO_RESPONSE_CODE can give.
CurlOutcomes ==
    { [code |-> "CURLE_OK", status |-> st] : st \in DlStatuses }
    \cup { [code |-> "CURLE_ERR", status |-> st] : st \in {0, 200} }

\* A success test that accepts every status below 400, as the index
\* requests do.
SuccessBelow400(o) == o.code = "CURLE_OK" /\ o.status >= 200 /\ o.status < 400

\* code == CURLE_OK && status >= 200 && status < 300
Success(o) == o.code = "CURLE_OK" /\ o.status >= 200 /\ o.status < 300

\* What the transfer left in the .part file: the file the server sends with
\* a 2xx status, the page it sends with another status, or a truncated
\* transfer.
Written(o, url, attempt) ==
    FileOf(IF o.code # "CURLE_OK" THEN "partial"
           ELSE IF o.status \in 200..299 THEN "body" ELSE "errpage", url, attempt)

\* fs::rename( tmp, out_file, ec ); on ec copy_file( overwrite ) and remove( tmp ).
Publish(d, out_file, rename_ok, copy_ok) ==
    IF rename_ok \/ copy_ok
    THEN [d EXCEPT ![out_file] = d[TmpOf(out_file)], ![TmpOf(out_file)] = NoFile]
    ELSE [d EXCEPT ![TmpOf(out_file)] = NoFile]

\* After a failed attempt: fs::remove( tmp, ec ).
Discard(d, out_file) == [d EXCEPT ![TmpOf(out_file)] = NoFile]

\* The transfer of one attempt and what follows it in the loop body.
DlPerform(n) ==
    /\ dl[n].pc = "perform"
    /\ \E o \in CurlOutcomes, rename_ok \in MayFail, copy_ok \in MayFail :
         LET a == dl[n]
             got == [disk EXCEPT ![TmpOf(n)] = Written(o, a.url, a.attempt)]
         IN  IF cancel
             THEN /\ disk' = got
                  /\ dl' = [dl EXCEPT ![n] = [a EXCEPT !.pc = "ret", !.result = FALSE]]
                  /\ UNCHANGED failures
             ELSE IF Success(o)
             THEN /\ disk' = Publish(got, n, rename_ok, copy_ok)
                  /\ dl' = [dl EXCEPT ![n] = [a EXCEPT !.pc = "ret", !.result = TRUE]]
                  /\ UNCHANGED failures
             ELSE /\ disk' = Discard(got, n)
                  /\ failures' = IF a.attempt < a.retries THEN failures
                                 ELSE failures \cup {<<"DL", n>>}
                  /\ dl' = [dl EXCEPT ![n] = [a EXCEPT !.pc = "head", !.attempt = @ + 1]]
    /\ UNCHANGED <<DlKeeps, cancel>>


\* --------------------------------------------------- decompress_bz2_to_file
MaxChunks == 1

BzKeeps == <<sources, remote, s, faults, existing_files, phase, last, running, runs,
             pc, loc, wk, dl, report, log, hist>>

\* The loop test and, when it lets the attempt start: fopen( bz2, "rb" ),
\* fopen( out, "wb" ), BZ2_bzReadOpen; out is created (truncated) whenever its
\* fopen succeeds.
BzHead(n) ==
    /\ bz[n].pc = "head"
    /\ \E in_ok \in MayFail, out_ok \in MayFail, bz_ok \in MayFail :
         IF ~MayAttempt(bz[n])
         THEN /\ bz' = [bz EXCEPT ![n].pc = "ret", ![n].result = FALSE]
              /\ UNCHANGED <<disk, failures>>
         ELSE /\ disk' = IF out_ok
                         THEN [disk EXCEPT ![strip_extension(n)] =
                                 FileOf("empty", n, bz[n].attempt)]
                         ELSE disk
              /\ IF in_ok /\ Exists(disk[n]) /\ out_ok /\ bz_ok
                 THEN /\ bz' = [bz EXCEPT ![n].pc = "read", ![n].bzerr = "BZ_OK",
                                          ![n].chunks = 0]
                      /\ UNCHANGED failures
                 ELSE /\ bz' = [bz EXCEPT ![n].pc = "ret", ![n].result = FALSE]
                      /\ failures' = failures \cup {<<"BZ2_OPEN", n>>}
    /\ UNCHANGED <<BzKeeps, cancel>>

\* What one BZ2_bzRead can report; BZ_OK (more to come) at most MaxChunks times.
ReadResults(chunks) ==
    {"BZ_STREAM_END", "BZ_DATA_ERROR"} \cup (IF chunks < MaxChunks THEN {"BZ_OK"} ELSE {})

\* One turn of while ( !cancel.load() ) { BZ2_bzRead ... }.
BzRead(n) ==
    /\ bz[n].pc = "read"
    /\ IF cancel
       THEN /\ bz' = [bz EXCEPT ![n].pc = "close"]
            /\ UNCHANGED disk
       ELSE \E e \in ReadResults(bz[n].chunks) :
            /\ bz' = [bz EXCEPT ![n].bzerr = e, ![n].chunks = @ + 1,
                                ![n].pc = IF e = "BZ_OK" THEN "read" ELSE "close"]
            /\ disk' = IF e = "BZ_DATA_ERROR" THEN disk
                       ELSE [disk EXCEPT ![strip_extension(n)] =
                               FileOf(IF e = "BZ_OK" THEN "partial" ELSE "map", n, bz[n].attempt)]
    /\ UNCHANGED <<BzKeeps, cancel, failures>>

\* BZ2_bzReadClose( &bzerr, bz ) stores its own result in bzerr: BZ_OK for a
\* handle opened for reading (libbz2).
ReadCloseErr(bzerr) == "BZ_OK"

\* After the read loop: close, the cancel check, the verdict on bzerr.
BzClose(n) ==
    /\ bz[n].pc = "close"
    /\ LET e == ReadCloseErr(bz[n].bzerr)
       IN  IF cancel
           THEN /\ bz' = [bz EXCEPT ![n].pc = "ret", ![n].result = FALSE, ![n].bzerr = e]
                /\ UNCHANGED <<disk, failures>>
           ELSE IF e \in {"BZ_STREAM_END", "BZ_OK"}
           THEN /\ bz' = [bz EXCEPT ![n].pc = "ret", ![n].result = TRUE, ![n].bzerr = e]
                /\ UNCHANGED <<disk, failures>>
           ELSE /\ disk' = [disk EXCEPT ![strip_extension(n)] = NoFile]
                /\ IF bz[n].attempt = bz[n].retries
                   THEN /\ failures' = failures \cup {<<"BZ2", n>>}
                        /\ bz' = [bz EXCEPT ![n].pc = "ret", ![n].result = FALSE, ![n].bzerr = e]
                   ELSE /\ bz' = [bz EXCEPT ![n].pc = "head", ![n].attempt = @ + 1, ![n].bzerr = e]
                        /\ UNCHANGED failures
    /\ UNCHANGED <<BzKeeps, cancel>>

\* ------------------------------------------------------------ specification
Runner ==
    \/ RunEntry \/ reset_phases \/ RunPre \/ IndexStart
    \/ Poll \/ Launch \/ Join
    \/ Recon \/ Store1 \/ Store2 \/ Store3 \/ Store4
    \/ DownloadStart \/ AfterDownload \/ DecompressStart
    \/ DeleteStart \/ DeleteStep \/ RunDone \/ RunnerExit

Slots == 1..Cardinality(Names)

Workers ==
    \/ \E k \in Slots :
         \/ worker_index(k)
         \/ DownloadBody(k) \/ DownloadDone(k)
         \/ DecompressBody(k) \/ DecompressDone(k)
    \/ \E n \in Names :
         \/ DlHead(n) \/ DlPerform(n)
         \/ BzHead(n) \/ BzRead(n) \/ BzClose(n)

Next == start_btn \/ index_btn \/ cancel_btn \/ Runner \/ Workers

Spec == Init /\ [][Next]_vars


\* ------------------------------------------- download_file called on its own
\* One call of download_file for FileA from source A, in every situation it
\* can be called in: any retry budget, the flag set or not, the destination
\* and a stale .part there or not; the flag may be set at any moment.
FetcherDisks ==
    { DiskWith(S) : S \in SUBSET {FileA, TmpOf(FileA)} }

InitDL ==
    /\ sources = Srcs(TRUE, TRUE)
    /\ remote = RemoteTwo
    /\ \E r \in 0..MaxRetries : s = Plain(1, FALSE, FALSE, r)
    /\ faults \in BOOLEAN
    /\ disk \in FetcherDisks
    /\ cancel \in BOOLEAN
    /\ phase = [ph \in Phases |-> ZeroPhase]
    /\ Idle

DlCall ==
    /\ runs = 0
    /\ runs' = 1
    /\ dl' = [dl EXCEPT ![FileA] = Activation(url_join(UrlX, FileA), FileA, s.retries)]
    /\ UNCHANGED <<sources, remote, s, faults, disk, cancel, existing_files, phase,
                   last, running, pc, loc, wk, bz, failures, report, log, hist>>

SpecDL ==
    InitDL /\ [][DlCall \/ cancel_btn \/ \E n \in Names : DlHead(n) \/ DlPerform(n)]_vars


\* ==================================================================== claims
\* Items whose body is executing, and items that were launched at all.
Executing == { k \in DOMAIN wk : wk[k] \in {"body", "call"} }
Launched == { k \in DOMAIN wk : wk[k] # "idle" }
LaterPhases == Phases \ {"indexing"}

\* C1: in every parallel phase the number of item bodies executing at the
\* same time never exceeds N = max(1, threads); with N = 1 no two overlap.
C1_BoundedBodies ==
    Cardinality(Executing) <= (IF s.threads >= 1 THEN s.threads ELSE 1)

\* The cap is reached and holds the launcher back: N bodies execute, an item
\* is still to be launched, and nobody has cancelled.
C1_Witness ==
    /\ pc = "poll"
    /\ ~cancel
    /\ loc.i <= Len(loc.items)
    /\ Cardinality(Executing) = (IF s.threads >= 1 THEN s.threads ELSE 1)

\* C2: once the launcher of a phase has seen the flag set it launches no
\* further item of that phase, and when the phase is over every item either
\* ran its body to the end or was never started.
C2_NoLaunchAfterCancel ==
    /\ [](pc \notin {"poll", "chk", "join"} => \A k \in DOMAIN wk : wk[k] \in {"idle", "fin"})
    /\ [][(hist.sawCancel /\ hist'.sawCancel) => Launched' = Launched]_vars

\* A cancelled phase is over: one item ran to the end, another never started.
C2_Witness ==
    /\ hist.sawCancel
    /\ pc \notin {"poll", "chk", "join"}
    /\ \E k \in DOMAIN wk : wk[k] = "fin"
    /\ \E k \in DOMAIN wk : wk[k] = "idle"

\* C3: no item of a phase is still executing while that phase's running flag
\* is false; the flag is cleared only after every launched item has finished.
C3_ClearedAfterJoin ==
    \A k \in DOMAIN wk : wk[k] \in {"body", "call"} => phase[loc.ph].running

\* The download phase had items, ran them, and its flag is false again.
C3_Witness ==
    /\ loc.ph = "downloading"
    /\ ~phase["downloading"].running
    /\ \E k \in DOMAIN wk : wk[k] = "fin"

\* C4: a phase starts only if the run has not been cancelled; when the flag
\* is set during Indexing, no later phase ever has its running flag true in
\* that run.
C4_NoPhaseAfterCancel ==
    hist.cancelAt = "indexing" => \A ph \in LaterPhases : ~phase[ph].running

\* C5: the flag set while Downloading is running makes the run report
\* Cancelled, Decompressing and Deleting never become running even when
\* configured, and downloading.running is false when the run returns.
C5_CancelledInDownload ==
    hist.cancelAt = "downloading" =>
        /\ report \in {"none", "cancelled"}
        /\ hist.started \cap {"decompressing", "deleting"} = {}
        /\ ~phase["decompressing"].running /\ ~phase["deleting"].running
        /\ pc \in {"ret", "idle"} => report = "cancelled" /\ ~phase["downloading"].running

\* A run with decompression and deletion configured, cancelled while
\* downloading, has returned.
C5_Witness ==
    /\ hist.cancelAt = "downloading"
    /\ s.decompress /\ s.delete_bz2
    /\ pc = "idle" /\ runs > 0
    /\ report = "cancelled"

\* The scenario of C6: two enabled sources list the same file, A was last
\* seen at 30 ms and B at 200 ms when the run starts, nothing is present
\* locally, no filters; and both listing requests of this run succeeded.
C6_Scenario ==
    /\ loc.mode = "pipeline"
    /\ remote = RemoteBoth
    /\ sources[1].enabled /\ sources[2].enabled
    /\ hist.lat0 = <<30, 200>>
    /\ hist.snap = EmptyDisk
    /\ s.include_filters = <<>> /\ s.exclude_filters = <<>>
    /\ hist.gets = <<1, 1>>
    /\ sources[1].last_ok /\ sources[2].last_ok

C6_Counts ==
    report = "done" =>
        /\ Len(hist.fetched) = 1
        /\ last.to_download = 1
        /\ last.already_have = 0

\* C6 as stated: in the scenario the file is downloaded exactly once, from
\* source A's URL, with to-download = 1 and already-have = 0.
C6_FromA ==
    C6_Scenario =>
        /\ Len(hist.fetched) <= 1
        /\ \A i \in 1..Len(hist.fetched) :
             hist.fetched[i].src = 1 /\ hist.fetched[i].url = url_join(UrlX, FileB)
        /\ C6_Counts

\* C6, amended: in the scenario the file is requested through one
\* download_file call, from the source whose listing request of this run
\* measured the lower latency (A when A's was lower, B when B's was),
\* whatever the latencies were when the run started; a run that ends Done
\* made exactly that one call and reports to-download = 1, already-have = 0.
C6_FromFastestNow ==
    C6_Scenario =>
        /\ Len(hist.fetched) <= 1
        /\ \A i \in 1..Len(hist.fetched) :
             /\ hist.fetched[i].name = FileB
             /\ hist.fetched[i].url = url_join(sources[hist.fetched[i].src].url, FileB)
             /\ sources[1].last_latency_ms < sources[2].last_latency_ms
                  => hist.fetched[i].src = 1
             /\ sources[2].last_latency_ms < sources[1].last_latency_ms
                  => hist.fetched[i].src = 2
        /\ C6_Counts

\* The run is Done and A, measured faster than B in this run, served the file.
C6_Witness ==
    /\ C6_Scenario
    /\ report = "done"
    /\ sources[1].last_latency_ms < sources[2].last_latency_ms
    /\ Len(hist.fetched) = 1
    /\ hist.fetched[1].url = url_join(UrlX, FileB)

\* The names the successful listing requests of this run returned.
ListedNow ==
    UNION { { remote[sources[i].url][j] : j \in 1..Len(remote[sources[i].url]) } :
              i \in { i \in 1..Len(sources) : hist.gets[i] = 1 /\ sources[i].last_ok } }

\* C7: index-only mode does one listing GET per enabled source and nothing
\* else on the network: no file is fetched, no later phase becomes running,
\* and a listed name that is present locally counts as already-have, not
\* to-download (already-have = 1, to-download = 0 for the single file).
C7_IndexOnly ==
    loc.mode = "index" =>
        /\ \A i \in 1..Len(sources) :
             hist.gets[i] <= (IF sources[i].enabled THEN 1 ELSE 0)
        /\ hist.fetched = <<>>
        /\ \A n \in Names : dl[n].pc = "off" /\ bz[n].pc = "off"
        /\ hist.started \subseteq {"indexing"}
        /\ \A ph \in LaterPhases : ~phase[ph].running
        /\ disk = hist.snap
        /\ report = "index_complete" =>
             /\ ~cancel => \A i \in 1..Len(sources) : sources[i].enabled => hist.gets[i] = 1
             /\ last.already_have = Cardinality(ListedNow \cap existing_files)
             /\ last.to_download = Cardinality(ListedNow \ existing_files)
             /\ (ListedNow = {FileB} /\ FileB \in existing_files)
                  => last.already_have = 1 /\ last.to_download = 0

\* Index-only has completed over two sources that list the one file that is
\* present locally.
C7_Witness ==
    /\ loc.mode = "index"
    /\ report = "index_complete"
    /\ hist.gets = <<1, 1>>
    /\ ListedNow = {FileB} /\ FileB \in existing_files
    /\ last.already_have = 1 /\ last.to_download = 0

\* What a failed attempt (non-2xx status or transport error) wrote.
FailedKinds == {"errpage", "partial"}

\* The destination changes only in the step that ends an attempt with
\* transport success and a 2xx status, and then to that attempt's body.
C8_PublishOnSuccessOnly ==
    \A n \in Names :
        disk'[n] # disk[n] =>
            /\ dl[n].pc = "perform"
            /\ disk'[n] = FileOf("body", dl[n].url, dl[n].attempt)

C9_SuccessMeansPublished ==
    \A n \in Names :
        (dl[n].pc = "ret" /\ dl[n].result) =>
            /\ disk[n] = FileOf("body", dl[n].url, dl[n].attempt)
            /\ ~Exists(disk[TmpOf(n)])

\* C10: called with the flag already set, download_file makes no attempt,
\* returns failure and creates neither the destination nor a .part file; the
\* flag is tested before every later attempt and none starts once it is set.
C10_NoAttemptOnceCancelled ==
    /\ [](\A n \in Names :
            (dl[n].pc # "off" /\ dl[n].cancel0) =>
                /\ dl[n].opened = 0
                /\ dl[n].pc \in {"head", "ret"}
                /\ ~dl[n].result
                /\ disk[n] = dl[n].dest0
                /\ disk[TmpOf(n)] = dl[n].tmp0)
    /\ [][\A n \in Names : dl'[n].opened > dl[n].opened => ~cancel]_vars

\* A call with a budget of attempts and the flag already set has returned.
C10_Witness ==
    /\ dl[FileA].pc = "ret"
    /\ dl[FileA].cancel0
    /\ dl[FileA].retries >= 1
    /\ ~dl[FileA].result
    /\ dl[FileA].opened = 0
    /\ ~Exists(disk[FileA]) /\ ~Exists(disk[TmpOf(FileA)])

\* C11: for every retry budget 0..20, when download_file gives up without
\* cancellation because no attempt of the budget succeeded, it has appended a
\* failure line for the file to the failure log and returns false.
C11_GiveUpIsLogged ==
    \A n \in Names :
        (dl[n].pc = "ret" /\ ~dl[n].result /\ ~cancel) =>
            \E f \in failures : f[1] \in {"DL", "DL_OPEN"} /\ f[2] = n

\* C12: decompress_bz2_to_file returns success, and keeps the destination,
\* only when the stream reached a clean end-of-stream; a read that ends in
\* another state has the destination deleted and, once the budget is used up
\* without cancellation, a failure logged and false returned.
C12_SuccessMeansCleanEnd ==
    \A n \in Names :
        bz[n].pc = "ret" =>
            /\ bz[n].result => disk[strip_extension(n)].kind = "map"
            /\ (~bz[n].result /\ ~cancel) =>
                  /\ \E f \in failures : f[1] \in {"BZ2", "BZ2_OPEN"} /\ f[2] = n
                  /\ disk[strip_extension(n)].kind # "partial"

\* C13: in every reachable state and for each of the four phases
\* 0 <= done <= total, across phase start, item completion, cancellation and
\* the reset at the start of the next run.
C13_DoneWithinTotal ==
    \A ph \in Phases : 0 <= phase[ph].done /\ phase[ph].done <= phase[ph].total

\* The counters of an earlier run are being reset (some already are, some
\* not yet), and later a phase of the new run has counted all its items.
C13_WitnessReset ==
    /\ pc = "reset"
    /\ phase["indexing"].total = 0
    /\ phase["deleting"].total > 0

C13_Witness ==
    /\ hist.cancelAt = "downloading"
    /\ phase["indexing"].done = 2
    /\ phase["downloading"].total = 2
    /\ phase["downloading"].done = 1
    /\ ~phase["downloading"].running

\* --------------------------------------- the runner at its reconciliation
\* The state of run_pipeline / run_index_only when the indexing futures have
\* been joined (line 780): every listing request has been answered, ok or
\* not, with some page of anchors; the SourceIndex records are in completion
\* order; the user may have toggled a source's enabled box (Space in the
\* source list) since its request was launched.
Sub == <<"s", "/">>

\* The pages a listing can be: nothing, one file, two files, a file listed
\* twice in a row, a file listed twice with another between, and a file
\* listed both at the top and under a sub-path.
Pages ==
    { <<>>, <<FileB>>, <<FileA, FileB>>, <<FileB, FileB>>, <<FileB, FileA, FileB>>,
      <<Sub \o FileB, FileB>> }

\* What worker_index leaves for source i answered with ok: its fields and
\* its SourceIndex.
Indexed(url, ok, page) ==
    IF ok THEN extract_map_links_from_index_html(url, page) ELSE <<>>

ReconState(srcs, rem, idx, inc, exc, have, mode) ==
    /\ sources = srcs
    /\ remote = rem
    /\ s = Setting(TRUE, 1, FALSE, FALSE, 1, inc, exc)
    /\ faults = FALSE
    /\ disk = DiskWith(have)
    /\ cancel = FALSE
    /\ existing_files = ScanResult(DiskWith(have))
    /\ phase = [ph \in Phases |->
                  IF ph = "indexing"
                  THEN [running |-> FALSE, done |-> Len(idx), total |-> Len(idx)]
                  ELSE ZeroPhase]
    /\ last = ZeroLast
    /\ running = TRUE
    /\ runs = 1
    /\ pc = "recon"
    /\ loc = [LocIdle EXCEPT !.mode = mode, !.ph = "indexing",
                             !.enabled = [i \in 1..Len(idx) |-> i],
                             !.includes = split_csv_terms(inc),
                             !.excludes = split_csv_terms(exc),
                             !.indexed = idx,
                             !.items = [i \in 1..Len(idx) |-> i],
                             !.i = Len(idx) + 1]
    /\ wk = [i \in 1..Len(idx) |-> "fin"]
    /\ dl = [n \in Names |-> DlOff]
    /\ bz = [n \in Names |-> BzOff]
    /\ failures = { <<"IDX", srcs[i].url>> : i \in { j \in 1..Len(srcs) : ~srcs[j].last_ok } }
    /\ report = "none"
    /\ log = EmptyLog
    /\ hist = [HistInit EXCEPT !.gets = <<1, 1>>, !.started = {"indexing"},
                               !.lat0 = <<30, 200>>, !.snap = DiskWith(have)]

\* Two sources, each answered ok or not with any page, each still enabled or
\* not, the two records in either order; no filters.
InitReconSources ==
    \E ok1 \in BOOLEAN, ok2 \in BOOLEAN, en1 \in BOOLEAN, en2 \in BOOLEAN,
       p1 \in Pages, p2 \in Pages, swap \in BOOLEAN, have \in {{}, {FileB}},
       mode \in {"pipeline", "index"} :
        LET srcs == <<[url |-> UrlX, enabled |-> en1, last_latency_ms |-> 30,
                       last_ok |-> ok1],
                      [url |-> UrlY, enabled |-> en2, last_latency_ms |-> 200,
                       last_ok |-> ok2]>>
            si1 == [src |-> 1, links |-> Indexed(UrlX, ok1, p1)]
            si2 == [src |-> 2, links |-> Indexed(UrlY, ok2, p2)]
        IN  ReconState(srcs, [u \in {UrlX, UrlY} |-> IF u = UrlX THEN p1 ELSE p2],
                       IF swap THEN <<si2, si1>> ELSE <<si1, si2>>,
                       <<>>, <<>>, have, mode)

\* Filenames with a blank and with a comma in them (an href may hold both).
FileS == <<"a", " ", "b">> \o DotBsp
FileK == <<"a", ",", "b">> \o DotBsp

\* What the user may have typed into a filter field.
FilterSpecs ==
    { <<>>, <<"a">>, <<"A">>, <<"z">>, <<",">>, <<" ">>,
      <<" ", "B", ".", " ", ",">>,
      <<"b", "s", "p", ",", "z">>,
      <<".", "b", "z", "2", ",", " ", "a", ".">> }

\* Tokens a user may add to the exclude field: each occurs in some filename.
AddedTokens ==
    { <<"a">>, <<"B">>, <<".", "b", "z">>, <<" ">>, <<",">>, <<" ", "b">>,
      <<"a", ",", "b">> }

ExcludeSpecs ==
    {<<>>, <<"z">>} \cup AddedTokens \cup { <<"z", ",">> \o tok : tok \in AddedTokens }

\* Both sources answered ok; the filter fields (trimmed, as
\* apply_ui_to_settings stores them) and the local files vary.
InitReconFilters ==
    \E inc \in FilterSpecs, exc \in ExcludeSpecs, have \in {{}, {FileA}},
       mode \in {"pipeline", "index"} :
        LET srcs == <<[url |-> UrlX, enabled |-> TRUE, last_latency_ms |-> 30,
                       last_ok |-> TRUE],
                      [url |-> UrlY, enabled |-> TRUE, last_latency_ms |-> 200,
                       last_ok |-> TRUE]>>
            rem == [u \in {UrlX, UrlY} |->
                      IF u = UrlX THEN <<FileA, FileC, FileS, FileK>> ELSE <<FileB, FileC>>]
        IN  ReconState(srcs, rem,
                       <<[src |-> 1, links |-> Indexed(UrlX, TRUE, rem[UrlX])],
                         [src |-> 2, links |-> Indexed(UrlY, TRUE, rem[UrlY])]>>,
                       trim(inc), trim(exc), have, mode)

SpecRecon == (InitReconSources \/ InitReconFilters) /\ [][Recon]_vars

\* The sources an availability map names for any file.
Named(av) == UNION { { av[n][i] : i \in 1..Len(av[n]) } : n \in DOMAIN av }

\* C14: every source that appears in an entry of the availability map is
\* enabled and had its listing request of this run succeed; a disabled or
\* failed source contributes no entry.
C14_OnlyEnabledAndOk ==
    pc = "store1" =>
        \A src \in 1..Len(sources) :
            src \in Named(loc.availability) <=>
                /\ sources[src].enabled
                /\ sources[src].last_ok
                /\ hist.gets[src] = 1
                /\ extract_map_links_from_index_html(sources[src].url,
                                                     remote[sources[src].url]) # <<>>

\* One source answered and is enabled, the other answered too but has been
\* disabled since: the map names the first only.
C14_Witness ==
    /\ pc = "store1"
    /\ sources[1].enabled /\ sources[1].last_ok
    /\ ~sources[2].enabled /\ sources[2].last_ok
    /\ remote[UrlY] # <<>>
    /\ Named(loc.availability) = {1}


\* The sources, enabled and answered ok, whose listing holds a link to name.
Listing(name) ==
    { src \in 1..Len(sources) :
        /\ sources[src].enabled /\ sources[src].last_ok
        /\ \E l \in { extract_map_links_from_index_html(sources[src].url,
                         remote[sources[src].url])[j] :
                         j \in 1..Len(extract_map_links_from_index_html(
                                        sources[src].url, remote[sources[src].url])) } :
             filename(l) = name }

\* C15: a filename that appears in K of the successful index results has a
\* source list of exactly K members, each a distinct source.
C15_OneEntryPerSource ==
    pc = "store1" =>
        \A n \in DOMAIN loc.availability :
            /\ Len(loc.availability[n]) = Cardinality(Listing(n))
            /\ \A i, j \in 1..Len(loc.availability[n]) :
                 i # j => loc.availability[n][i] # loc.availability[n][j]


\* C16: after reconciliation in either mode already_have + to_download =
\* remote_after_filters <= remote_unique, and in the full pipeline the
\* worklist has exactly to_download entries, each a filename that passes the
\* filter and is absent from the local file set.
C16_CountsAddUp ==
    pc = "store1" =>
        /\ loc.counts.already_have + loc.counts.to_download
             = loc.counts.remote_after_filters
        /\ loc.counts.remote_after_filters <= loc.counts.remote_unique
        /\ loc.counts.remote_unique = Cardinality(DOMAIN loc.availability)
        /\ loc.mode = "pipeline" =>
             /\ Len(loc.to_get) = loc.counts.to_download
             /\ \A i \in 1..Len(loc.to_get) :
                  /\ loc.to_get[i] \in DOMAIN loc.availability
                  /\ passes_filters(loc.to_get[i], loc.includes, loc.excludes)
                  /\ loc.to_get[i] \notin existing_files
             /\ \A i, j \in 1..Len(loc.to_get) : i # j => loc.to_get[i] # loc.to_get[j]

\* A reconciliation where the filter drops a file, one file is present
\* locally and two are left to download.
C16_Witness ==
    /\ pc = "store1"
    /\ loc.mode = "pipeline"
    /\ loc.counts.remote_after_filters < loc.counts.remote_unique
    /\ loc.counts.already_have = 1
    /\ loc.counts.to_download = 2
    /\ Len(loc.to_get) = 2


\* The filter rule stated on the text of a filter field: its terms are the
\* comma-separated pieces, blanks stripped at both ends, lower-cased, empty
\* ones dropped.
Pieces(str) ==
    LET cuts == {0, Len(str) + 1} \cup { i \in 1..Len(str) : str[i] = "," }
    IN  { SubSeq(str, a + 1, b - 1) :
            <<a, b>> \in { c \in cuts \X cuts :
                             c[1] < c[2] /\ \A i \in cuts : ~(c[1] < i /\ i < c[2]) } }

Stripped(p) ==
    LET solid == { i \in 1..Len(p) : p[i] # " " }
    IN  IF solid = {} THEN <<>>
        ELSE SubSeq(p, CHOOSE i \in solid : \A j \in solid : i <= j,
                       CHOOSE i \in solid : \A j \in solid : j <= i)

Folded(p) == [i \in 1..Len(p) |-> IF p[i] = "A" THEN "a" ELSE IF p[i] = "B" THEN "b" ELSE p[i]]

Terms(str) == { Folded(Stripped(p)) : p \in Pieces(str) } \ {<<>>}

Occurs(t, name) == \E i \in 1..(Len(name) - Len(t) + 1) : SubSeq(name, i, i + Len(t) - 1) = t

RulePasses(name, inc, exc) ==
    /\ Terms(inc) = {} \/ \E t \in Terms(inc) : Occurs(t, Folded(name))
    /\ \A t \in Terms(exc) : ~Occurs(t, Folded(name))

Worklist == { loc.to_get[i] : i \in 1..Len(loc.to_get) }

\* C18: with the term lists split_csv_terms produces, passes_filters is true
\* exactly when (there is no include term or the lower-cased filename
\* contains one) and the lower-cased filename contains no exclude term;
\* matching ignores case on both sides.
C18_FilterRule ==
    pc = "store1" =>
        /\ \A n \in DOMAIN loc.availability :
             passes_filters(n, loc.includes, loc.excludes)
               <=> RulePasses(n, s.include_filters, s.exclude_filters)
        /\ loc.counts.remote_after_filters =
             Cardinality({ n \in DOMAIN loc.availability :
                             RulePasses(n, s.include_filters, s.exclude_filters) })
        /\ loc.mode = "pipeline" =>
             Worklist = { n \in DOMAIN loc.availability \ existing_files :
                            RulePasses(n, s.include_filters, s.exclude_filters) }

\* The include field "B. ," and the exclude field "a": the two archives,
\* b.bsp.bz2 and B.bz2, pass; every name with an a in it does not.
C18_Witness ==
    /\ pc = "store1"
    /\ loc.mode = "pipeline"
    /\ s.include_filters = <<"B", ".", " ", ",">>
    /\ s.exclude_filters = <<"a">>
    /\ loc.to_get = <<FileC, FileB>>
    /\ loc.counts.remote_unique = 5

\* The exclude field after tok was added to base as a further entry.
WithToken(base, tok) == trim(IF base = <<>> THEN tok ELSE base \o <<",">> \o tok)

\* Holds a character other than a blank or a comma.
Solid(tok) == \E i \in 1..Len(tok) : tok[i] \notin {" ", ","}

\* C19 as stated: adding to the exclude specification any token that is a
\* substring of the filename makes the filename fail the filter.
C19_AnySubstringExcludes ==
    (pc = "store1" /\ loc.mode = "pipeline") =>
        \A base \in {<<>>, <<"z">>}, tok \in AddedTokens, n \in DOMAIN loc.availability :
            (s.exclude_filters = WithToken(base, tok) /\ Occurs(tok, n))
                => n \notin Worklist

\* C19, amended: adding to the exclude specification a token that is a
\* substring of the filename and holds a character other than blanks and
\* commas makes the filename fail the filter (a token of blanks and commas
\* only adds no term).
C19_SolidSubstringExcludes ==
    (pc = "store1" /\ loc.mode = "pipeline") =>
        \A base \in {<<>>, <<"z">>}, tok \in AddedTokens, n \in DOMAIN loc.availability :
            (s.exclude_filters = WithToken(base, tok) /\ Occurs(tok, n) /\ Solid(tok))
                => /\ n \notin Worklist
                   /\ ~passes_filters(n, loc.includes, loc.excludes)

\* ".bz" was added to an empty exclude field: the archives, which hold it
\* and would pass otherwise, are not in the worklist while a.bsp is.
C19_Witness ==
    /\ pc = "store1"
    /\ loc.mode = "pipeline"
    /\ s.include_filters = <<>>
    /\ s.exclude_filters = <<".", "b", "z">>
    /\ existing_files = {}
    /\ {FileB, FileC} \subseteq DOMAIN loc.availability
    /\ FileB \notin Worklist /\ FileC \notin Worklist
    /\ FileA \in Worklist


\* ------------------------------------------- a download item at its selection
\* The state of a download item when it calls pick_best_source (line 828):
\* three sources with latencies unknown (-1), known, and known at and above
\* the sentinel; the candidate list is any list of distinct sources, the
\* empty one included.
UrlZ == <<Scheme, "z", "/">>

RankLatencies == {-1, 50, 100, Sentinel, Sentinel + 1}

RECURSIVE Arrangements(_)
Arrangements(S) ==
    {<<>>} \cup UNION { { <<x>> \o r : r \in Arrangements(S \ {x}) } : x \in S }

InitRank ==
    \E l1 \in RankLatencies, l2 \in RankLatencies, l3 \in RankLatencies,
       cands \in Arrangements({1, 2, 3}) :
        /\ sources = <<[url |-> UrlX, enabled |-> TRUE, last_latency_ms |-> l1, last_ok |-> TRUE],
                       [url |-> UrlY, enabled |-> TRUE, last_latency_ms |-> l2, last_ok |-> TRUE],
                       [url |-> UrlZ, enabled |-> TRUE, last_latency_ms |-> l3, last_ok |-> TRUE]>>
        /\ remote = RemoteBoth
        /\ s = Plain(1, FALSE, FALSE, 1)
        /\ faults = FALSE
        /\ disk = EmptyDisk
        /\ cancel = FALSE
        /\ existing_files = {}
        /\ phase = [ph \in Phases |->
                      IF ph = "indexing" THEN [running |-> FALSE, done |-> 3, total |-> 3]
                      ELSE IF ph = "downloading" THEN [running |-> TRUE, done |-> 0, total |-> 1]
                      ELSE ZeroPhase]
        /\ last = [remote_unique |-> 1, remote_after_filters |-> 1,
                   already_have |-> 0, to_download |-> 1]
        /\ running = TRUE
        /\ runs = 1
        /\ pc = "join"
        /\ loc = [LocIdle EXCEPT !.mode = "pipeline", !.ph = "downloading",
                                 !.enabled = <<1, 2, 3>>,
                                 !.availability = [n \in {FileB} |-> cands],
                                 !.counts = [remote_unique |-> 1, remote_after_filters |-> 1,
                                             already_have |-> 0, to_download |-> 1],
                                 !.to_get = <<FileB>>, !.items = <<FileB>>,
                                 !.i = 2, !.in_flight = 1]
        /\ wk = <<"body">>
        /\ dl = [n \in Names |-> DlOff]
        /\ bz = [n \in Names |-> BzOff]
        /\ failures = {}
        /\ report = "none"
        /\ log = EmptyLog
        /\ hist = [HistInit EXCEPT !.gets = <<1, 1>>, !.started = {"indexing", "downloading"},
                                   !.snap = EmptyDisk]

SpecRank == InitRank /\ [][\E k \in Slots : DownloadBody(k)]_vars

\* The candidates of the item and the latency of a candidate.
Cands == loc.availability[FileB]
LatOf(src) == sources[src].last_latency_ms

\* a ranks strictly before b: known before unknown, lower before higher.
RanksBefore(a, b) == a >= 0 /\ (b < 0 \/ a < b)

\* The candidate the stated rule selects: nothing ranks before it, and
\* everything listed before it ranks after it.
RuleChoice(p) ==
    /\ \A q \in 1..Len(Cands) : ~RanksBefore(LatOf(Cands[q]), LatOf(Cands[p]))
    /\ \A q \in 1..(p - 1) : RanksBefore(LatOf(Cands[p]), LatOf(Cands[q]))

Selected ==
    /\ wk = <<"call">>
    /\ Len(hist.fetched) = 1

NoneSelected ==
    /\ wk = <<"fin">>
    /\ <<"DL_NOSRC", FileB>> \in failures
    /\ hist.fetched = <<>>

PathInvalid == ~s.hl2mp_path_ok
NoneEnabled == \A i \in 1..Len(sources) : ~sources[i].enabled
PastPreconditions == runs >= 1 /\ pc \notin {"entry", "reset", "pre"}

C20_FailedPreconditionStartsNothing ==
    (PathInvalid \/ NoneEnabled) =>
        /\ \A ph \in Phases : ~phase[ph].running
        /\ hist.started = {}
        /\ \A i \in 1..Len(sources) : hist.gets[i] = 0
        /\ hist.fetched = <<>>
        /\ \A n \in Names : dl[n].pc = "off"
        /\ wk = <<>>
        /\ \A i \in 1..Len(sources) :
             /\ sources[i].last_ok = FALSE
             /\ runs >= 1 => sources[i].last_latency_ms = hist.lat0[i]
        /\ PastPreconditions =>
             /\ pc \in {"ret", "idle"}
             /\ report = "aborted"
             /\ IF PathInvalid THEN <<"PATH", <<>>>> \in failures
                ELSE <<"NOSRC", <<>>>> \in failures \/ <<"MKDIR", <<>>>> \in failures

\* A run with both sources disabled has returned with its failure line.
C20_Witness ==
    /\ NoneEnabled
    /\ ~PathInvalid
    /\ pc = "idle" /\ runs = 1 /\ ~running
    /\ report = "aborted"
    /\ failures = {<<"NOSRC", <<>>>>}

\* A run without a valid target directory has returned with its failure line.
C20_WitnessPath ==
    /\ PathInvalid
    /\ pc = "idle" /\ runs = 1 /\ ~running
    /\ report = "aborted"
    /\ failures = {<<"PATH", <<>>>>}


\* ------------------------------------------------------------ fair schedule
\* Some thread of the run that can take a step (the runner, a std::async
\* item, a call in progress) eventually takes one, and each network or
\* decompression call returns; the UI (Start, Index, Cancel) is under no
\* obligation.  Fair scheduling of each thread on its own implies this.
SpecFair == Spec /\ WF_vars(Runner \/ Workers)

\* C21: under fair scheduling every started run terminates: it returns with
\* all four running flags false and one of the terminal outcomes reported,
\* whatever fails and whenever the flag is set.
Returned ==
    /\ ~running
    /\ pc = "idle"
    /\ \A ph \in Phases : ~phase[ph].running
    /\ report \in {"done", "index_complete", "cancelled", "aborted"}
    /\ report = "aborted" => failures # {}

C21_EveryRunTerminates == running ~> Returned

\* A run that was cancelled while items had failed has returned.
C21_Witness ==
    /\ Returned
    /\ runs = 1
    /\ report = "cancelled"
    /\ failures # {}


\* C22: on entry to either mode all four PhaseProgress records are reset to
\* running = false, done = 0, total = 0 before any other step, also when the
\* run then aborts on a precondition, so that no counter value of a previous
\* run is visible once the new run has started (running is true).
Untouched == Phases \ hist.started

C22_NoStaleCounterOnceStarted ==
    running => \A ph \in Untouched : phase[ph] = ZeroPhase

\* What the code does give: once reset_phases has returned, a phase this run
\* has not begun shows running = false, done = 0, total = 0, whether the run
\* goes on or aborts.
C22_ZeroAfterReset ==
    (runs >= 1 /\ pc \notin {"entry", "reset"}) =>
        \A ph \in Untouched : phase[ph] = ZeroPhase

\* A run that found the counters of an earlier run has aborted on a
\* precondition and left all of them at zero.
C22_WitnessAbort ==
    /\ report = "aborted"
    /\ pc = "idle"
    /\ phase = [ph \in Phases |-> ZeroPhase]


\* --------------------------------------------- the indexing items on their own
\* Both sources' indexing items launched (threads = 2) and about to make
\* their request; the listings hold repeated, adjacent and separated, padded,
\* upper-case, directory and non-map anchors, and the sources carry the
\* fields an earlier run left.
IndexPages ==
    Pages \cup { <<FileC, Sub, <<"x">>, FileC>>,
                 <<<<" ">> \o FileA \o <<" ">>, FileA>>,
                 <<FileA, FileB, FileA, FileA>> }

InitIndex ==
    \E p1 \in IndexPages, p2 \in IndexPages, l0 \in {-1, 500}, ok0 \in BOOLEAN,
       mode \in {"pipeline", "index"} :
        /\ sources = <<[url |-> UrlX, enabled |-> TRUE, last_latency_ms |-> l0,
                        last_ok |-> ok0],
                       [url |-> UrlY, enabled |-> TRUE, last_latency_ms |-> 500,
                        last_ok |-> TRUE]>>
        /\ remote = [u \in {UrlX, UrlY} |-> IF u = UrlX THEN p1 ELSE p2]
        /\ s = Plain(2, FALSE, FALSE, 1)
        /\ faults = FALSE
        /\ disk = EmptyDisk
        /\ cancel = FALSE
        /\ existing_files = {}
        /\ phase = [ph \in Phases |->
                      IF ph = "indexing" THEN [running |-> TRUE, done |-> 0, total |-> 2]
                      ELSE ZeroPhase]
        /\ last = ZeroLast
        /\ running = TRUE
        /\ runs = 1
        /\ pc = "join"
        /\ loc = [LocIdle EXCEPT !.mode = mode, !.ph = "indexing",
                                 !.enabled = <<1, 2>>, !.items = <<1, 2>>,
                                 !.i = 3, !.in_flight = 2]
        /\ wk = <<"body", "body">>
        /\ dl = [n \in Names |-> DlOff]
        /\ bz = [n \in Names |-> BzOff]
        /\ failures = {}
        /\ report = "none"
        /\ log = EmptyLog
        /\ hist = [HistInit EXCEPT !.answer = <<NoAnswer, NoAnswer>>,
                                   !.started = {"indexing"},
                                   !.lat0 = <<l0, 500>>, !.snap = EmptyDisk]

SpecIndex == InitIndex /\ [][\E k \in Slots : worker_index(k)]_vars

\* The accepted links of a listing in document order, each kept at its first
\* occurrence only.
RECURSIVE FirstSeen(_, _)
FirstSeen(seq, seen) ==
    IF seq = <<>> THEN <<>>
    ELSE IF Head(seq) \in seen THEN FirstSeen(Tail(seq), seen)
    ELSE <<Head(seq)>> \o FirstSeen(Tail(seq), seen \cup {Head(seq)})

Answered == { i \in 1..Len(loc.indexed) : sources[loc.indexed[i].src].last_ok }

\* C23: extract_map_links_from_index_html returns every accepted link at
\* most once, in the order of its first occurrence, for every sequence of
\* anchors in the listing.
C23_EachLinkOnceInOrder ==
    \A i \in Answered :
        LET url == sources[loc.indexed[i].src].url
        IN  loc.indexed[i].links = FirstSeen(ExtractLoop(url, remote[url]), {})

\* What the code does give: no link is followed directly by itself, and the
\* links are the accepted ones in document order.
C23_NoAdjacentRepeat ==
    \A i \in Answered :
        LET links == loc.indexed[i].links
            url == sources[loc.indexed[i].src].url
        IN  /\ \A j \in 1..(Len(links) - 1) : links[j] # links[j + 1]
            /\ FirstSeen(links, {}) = FirstSeen(ExtractLoop(url, remote[url]), {})

\* C24: after the indexing worker for a source finishes, last_latency_ms is
\* the elapsed time of this request and last_ok is true exactly when the
\* transport call completed with a status in 200..399; both are overwritten
\* on failure as on success, and a failed source yields an empty link list.
C24_FieldsFromThisRequest ==
    \A i \in 1..Len(loc.indexed) :
        LET src == loc.indexed[i].src
            r == hist.answer[src]
        IN  /\ r # NoAnswer
            /\ sources[src].last_latency_ms = r.ms
            /\ sources[src].last_ok = (~r.err /\ r.status \in 200..399)
            /\ ~sources[src].last_ok => loc.indexed[i].links = <<>>

\* A source last seen working at 500 ms answers 400 after 30 ms: both fields
\* are replaced and its record has no links.
C24_Witness ==
    /\ hist.lat0[2] = 500
    /\ hist.answer[2] = [err |-> FALSE, status |-> 400, ms |-> 30]
    /\ sources[2].last_latency_ms = 30
    /\ ~sources[2].last_ok
    /\ \E i \in 1..Len(loc.indexed) :
         loc.indexed[i].src = 2 /\ loc.indexed[i].links = <<>>
    /\ remote[UrlY] # <<>>


\* C25: item failures are never phase-fatal: in a run that is not cancelled
\* every enabled source is indexed and every worklist file and archive is
\* attempted even when other items fail, so when a phase's running flag
\* clears its done count equals its total.
Cleared(ph) == ph \in hist.started /\ ~phase[ph].running

C25_FailuresNotFatal ==
    (runs >= 1 /\ ~cancel) =>
        /\ \A ph \in Phases : Cleared(ph) => phase[ph].done = phase[ph].total
        /\ (Cleared(loc.ph) /\ loc.ph # "deleting") =>
             /\ Len(wk) = Len(loc.items)
             /\ \A k \in DOMAIN wk : wk[k] = "fin"
        /\ Cleared("indexing") =>
             \A i \in 1..Len(sources) : sources[i].enabled => hist.gets[i] = 1
        /\ Cleared("downloading") => phase["downloading"].total = Len(loc.to_get)

\* Two files on the worklist, one download failed for good and the other
\* was published; the phase has cleared at 2 of 2.
C25_Witness ==
    /\ ~cancel
    /\ pc = "dl_chk"
    /\ phase["downloading"] = [running |-> FALSE, done |-> 2, total |-> 2]
    /\ <<"DL", FileA>> \in failures
    /\ Exists(disk[FileB])


\* ----------------------------------------------------------------- LiveLog
LinesCap == 800
LinesDrop == 200
FailuresCap == 200
FailuresDrop == 50

\* An eviction that drops the newest entries.
EraseNewest(v, n) == SubSeq(v, 1, Len(v) - n)

\* v.erase( v.begin(), v.begin() + n )
EraseFront(v, n) == SubSeq(v, n + 1, Len(v))

\* LiveLog::push and LiveLog::fail, each under the mutex: one atomic step.
push(l, str) ==
    LET v == Append(l.lines, str)
    IN  [l EXCEPT !.lines = IF Len(v) > LinesCap THEN EraseFront(v, LinesDrop) ELSE v,
                  !.pushed = @ + 1]

fail(l, str) ==
    LET v == Append(l.failures, str)
    IN  [l EXCEPT !.failures = IF Len(v) > FailuresCap THEN EraseFront(v, FailuresDrop) ELSE v,
                  !.failed = @ + 1]

\* The log after n calls of push and m calls of fail: the calls a..b made on
\* l, the first half before the second.
RECURSIVE PushRange(_, _, _)
PushRange(l, a, b) ==
    IF a > b THEN l
    ELSE IF a = b THEN push(l, a)
    ELSE LET half == PushRange(l, a, (a + b) \div 2)
         IN  IF half.pushed >= a THEN PushRange(half, ((a + b) \div 2) + 1, b) ELSE half

RECURSIVE FailRange(_, _, _)
FailRange(l, a, b) ==
    IF a > b THEN l
    ELSE IF a = b THEN fail(l, a)
    ELSE LET half == FailRange(l, a, (a + b) \div 2)
         IN  IF half.failed >= a THEN FailRange(half, ((a + b) \div 2) + 1, b) ELSE half

LogAfter(n, m) == FailRange(PushRange(EmptyLog, 1, n), 1, m)

\* Threads that each make one call on the shared log; the log is empty, one
\* call below a cap, at a cap, or past an eviction.
InitLog ==
    /\ sources = Srcs(TRUE, TRUE)
    /\ remote = RemoteBoth
    /\ s = Plain(MaxThreads, FALSE, FALSE, 1)
    /\ faults = FALSE
    /\ disk = EmptyDisk
    /\ cancel = FALSE
    /\ phase = [ph \in Phases |-> ZeroPhase]
    /\ existing_files = {}
    /\ last = ZeroLast
    /\ running = TRUE
    /\ runs = 1
    /\ pc = "join"
    /\ loc = LocIdle
    /\ wk = [k \in Slots |-> "body"]
    /\ dl = [n \in Names |-> DlOff]
    /\ bz = [n \in Names |-> BzOff]
    /\ failures = {}
    /\ report = "none"
    /\ \E n \in {0, LinesCap - 1, LinesCap, LinesCap + LinesDrop},
          m \in {0, FailuresCap - 1, FailuresCap, FailuresCap + FailuresDrop} :
         log = LogAfter(n, m)
    /\ hist = HistInit

\* One call of push or of fail by thread k.
LogCall(k) ==
    /\ wk[k] = "body"
    /\ \/ log' = push(log, log.pushed + 1)
       \/ log' = fail(log, log.failed + 1)
    /\ wk' = [wk EXCEPT ![k] = "fin"]
    /\ UNCHANGED <<sources, remote, s, faults, disk, cancel, existing_files, phase, last,
                   running, runs, pc, loc, dl, bz, failures, report, hist>>

SpecLog == InitLog /\ [][\E k \in Slots : LogCall(k)]_vars

\* The last n of the numbers 1..total, in order.
LastOf(total, n) == [i \in 1..n |-> total - n + i]

\* C26: after any sequence of push and fail calls from any number of threads
\* the log holds at most 800 lines and at most 200 failures, and what is
\* kept is a suffix of what was appended, in the original order.
C26_BoundedSuffix ==
    /\ Len(log.lines) <= 800
    /\ Len(log.failures) <= 200
    /\ log.lines = LastOf(log.pushed, Len(log.lines))
    /\ log.failures = LastOf(log.failed, Len(log.failures))

\* Both lists have evicted their oldest entries once more.
C26_Witness ==
    /\ log.pushed = 1001 /\ Len(log.lines) = 601 /\ log.lines[1] = 401
    /\ log.failed = 251 /\ Len(log.failures) = 151 /\ log.failures[1] = 101


\* C27: at every moment at most one of the four phases has its running flag
\* set, and within one run the phases become running only in the order
\* Indexing, Downloading, Decompressing, Deleting, each at most once.
Rank(ph) ==
    CASE ph = "indexing" -> 1 [] ph = "downloading" -> 2
      [] ph = "decompressing" -> 3 [] ph = "deleting" -> 4

RunningNow == { ph \in Phases : phase[ph].running }

BecomesRunning(ph) == ~phase[ph].running /\ phase'[ph].running

C27_OnePhaseInOrder ==
    /\ [](Cardinality(RunningNow) <= 1)
    /\ [][\A ph \in Phases :
            BecomesRunning(ph) =>
                /\ ph \notin hist.started
                /\ \A q \in hist.started : Rank(q) < Rank(ph)
                /\ hist'.started = hist.started \cup {ph}]_vars

\* The fourth phase is running after the other three have run and ended.
C27_Witness ==
    /\ RunningNow = {"deleting"}
    /\ hist.started = Phases
    /\ phase["indexing"].total > 0
    /\ phase["downloading"].total > 0
    /\ phase["decompressing"].total > 0


\* C28: a cancellation request is never lost: once the flag is set after
\* Start or Index was pressed, it stays set until that run has returned, for
\* every interleaving of the UI thread and the runner thread.
C28_CancelNeverLost ==
    [][(running /\ cancel) => cancel']_vars

\* What the code does give: a request made after the runner has executed its
\* own rs.cancel.store( false ) stays set until the run has returned.
C28_KeptAfterEntry ==
    [][(running /\ cancel /\ pc # "entry") => cancel']_vars


\* C29: if the cancellation flag is set at any time while a run is executing
\* any phase, Decompressing and Deleting included, the run ends by reporting
\* Cancelled and never reports Done.
CancelledInPhase == hist.cancelAt \in Phases

C29_CancelledNeverDone ==
    CancelledInPhase =>
        /\ report # "done"
        /\ (pc \in {"ret", "idle"}) => report = "cancelled"

\* What the code does give: a full run whose flag was set while Indexing or
\* Downloading was running ends by reporting Cancelled.
C29_CancelledBeforeDecompress ==
    (loc.mode = "pipeline" /\ hist.cancelAt \in {"indexing", "downloading"}) =>
        /\ report \in {"none", "cancelled"}
        /\ (pc \in {"ret", "idle"}) => report = "cancelled"


\* A full run reported Done although the flag was set while Decompressing
\* (or Deleting) was running, and is still set.
C29_DoneAfterCancel ==
    /\ hist.cancelAt \in {"decompressing", "deleting"}
    /\ cancel
    /\ report = "done"


\* C30: in the Deleting phase a compressed archive is removed only if the
\* decompression of that archive in this run returned success; an archive
\* whose decompression failed is never deleted.
Removed == { n \in Names : \E k \in 1..Len(loc.items) : loc.items[k] = n /\ ~Exists(disk[n]) }

C30_DeletedOnlyIfUnpacked ==
    "deleting" \in hist.started => Removed \subseteq hist.unpacked


\* ------------------------------------- from the reconciliation to the fetch
\* The runner at line 780 after the listing requests were answered, the
\* first ok, the second ok or not, each with a page that links the archive at
\* the top, under a sub-path, on another host (an absolute link), or both at
\* the top and under a sub-path, or links a map and the archive; an exclude
\* term or none; the map present locally or not. The run then goes on
\* through the download phase.
FetchPages ==
    { <<FileB>>, <<Sub \o FileB>>, <<UrlZ \o FileB>>, <<Sub \o FileB, FileB>>, <<>>,
      <<FileA, FileB>> }

InitFetch ==
    \E p1 \in FetchPages, p2 \in FetchPages, l1 \in Latencies, l2 \in Latencies,
       ok2 \in BOOLEAN, swap \in BOOLEAN, exc \in {<<>>, <<"a">>},
       have \in {{}, {FileA}} :
        LET srcs == <<[url |-> UrlX, enabled |-> TRUE, last_latency_ms |-> l1,
                       last_ok |-> TRUE],
                      [url |-> UrlY, enabled |-> TRUE, last_latency_ms |-> l2,
                       last_ok |-> ok2]>>
            si1 == [src |-> 1, links |-> Indexed(UrlX, TRUE, p1)]
            si2 == [src |-> 2, links |-> Indexed(UrlY, ok2, p2)]
        IN  ReconState(srcs, [u \in {UrlX, UrlY} |-> IF u = UrlX THEN p1 ELSE p2],
                       IF swap THEN <<si2, si1>> ELSE <<si1, si2>>,
                       <<>>, exc, have, "pipeline")

SpecFetch ==
    InitFetch /\ [][\/ Recon \/ Store1 \/ Store2 \/ Store3 \/ Store4
                    \/ DownloadStart \/ Poll \/ Launch \/ Join
                    \/ \E k \in Slots : DownloadBody(k) \/ DownloadDone(k)
                    \/ \E n \in Names : DlHead(n) \/ DlPerform(n)]_vars

\* The resolved links the listing of source src contained for name in this
\* run.
ListedLinks(src, name) ==
    LET links == extract_map_links_from_index_html(sources[src].url,
                                                   remote[sources[src].url])
    IN  { links[i] : i \in { j \in 1..Len(links) : filename(links[j]) = name } }

\* C31: the URL a download worker fetches for a filename is one of the
\* resolved links that the selected source's listing contained for that
\* filename in this run (absolute links and links under sub-paths included).
C31_FetchesAListedLink ==
    \A i \in 1..Len(hist.fetched) :
        hist.fetched[i].url \in ListedLinks(hist.fetched[i].src, hist.fetched[i].name)

\* A worker fetches the archive from a source that listed it at the top.
C31_FetchedTopLevel ==
    /\ Len(hist.fetched) = 1
    /\ hist.fetched[1].url \in ListedLinks(hist.fetched[1].src, FileB)


\* --------------------------------------------------- a run right after a run
\* Start pressed again once a pipeline run has returned with "[i] Done." and
\* no failure line: the second run works on the same sources, listings and
\* settings and on the files the first one left.
StartAgain ==
    /\ ~running
    /\ runs = MaxRuns
    /\ pc = "idle"
    /\ report = "done"
    /\ failures = {}
    /\ cancel' = FALSE
    /\ running' = TRUE
    /\ runs' = runs + 1
    /\ pc' = "entry"
    /\ loc' = [LocIdle EXCEPT !.mode = "pipeline"]
    /\ report' = "none"
    /\ hist' = [HistInit EXCEPT
                  !.lat0 = [i \in 1..Len(sources) |-> sources[i].last_latency_ms],
                  !.snap = disk]
    /\ UNCHANGED <<sources, remote, s, faults, disk, existing_files, phase, last,
                   wk, dl, bz, failures, log>>

\* Two enabled sources, an empty target tree, no filters, no filesystem
\* faults; decompress and delete-after-decompress set or not.
InitAgain ==
    /\ \E rem \in {RemoteBoth, RemoteTwo}, th \in 1..MaxThreads,
          dec \in BOOLEAN, del \in BOOLEAN :
         /\ sources = Srcs(TRUE, TRUE)
         /\ remote = rem
         /\ s = Plain(th, dec, del, 1)
         /\ faults = FALSE
         /\ disk = EmptyDisk
    /\ cancel = FALSE
    /\ phase = [ph \in Phases |-> ZeroPhase]
    /\ Idle

SpecAgain == InitAgain /\ [][start_btn \/ StartAgain \/ Runner \/ Workers]_vars

\* The second run has stored its summary counters.
SecondRunCounted == runs = MaxRuns + 1 /\ "downloading" \in hist.started

\* C32: synchronization is idempotent: after a full pipeline run that
\* finished without cancellation or item failure, an immediately following
\* run against unchanged listings with the same settings (decompress and
\* delete-after-decompress included) finds every filtered remote file
\* already present and downloads nothing (to-download = 0).
C32_SecondRunDownloadsNothing ==
    SecondRunCounted =>
        /\ last.to_download = 0
        /\ last.already_have = last.remote_after_filters

\* What the code gives: the same when the first run deleted no archive
\* (delete-after-decompress off, or decompress off).
C32_IdempotentWithoutDelete ==
    (SecondRunCounted /\ ~(s.decompress /\ s.delete_bz2)) =>
        /\ last.to_download = 0
        /\ last.already_have = last.remote_after_filters

\* A second run with decompress on and delete off that found a file present.
C32_WitnessKept ==
    /\ SecondRunCounted
    /\ s.decompress /\ ~s.delete_bz2
    /\ last.already_have >= 1


\* ------------------------------------------- the source list edited in a run
\* The handlers of the sources panel; none of them looks at the running
\* flag. A run holds SourceEntry pointers into the vector (enabled, the
\* SourceIndex records, the availability map), here positions in sources.
\* erase invalidates the pointers at and after the erased position; push_back
\* invalidates all of them when it reallocates, which depends on the
\* capacity the vector happens to have. Edits made while no run is active are
\* the initial states; MaxEdits bounds the edits made during one run.
MaxEdits == 2
\* No pointer is invalidated before the run has taken its pointers (line
\* 714, loc.enabled).

\* add_btn: a new url is appended (enabled, latency -1), a known one enabled.
add_btn ==
    /\ running /\ hist.edits < MaxEdits /\ ~hist.wild
    /\ \E u \in {UrlY, UrlZ}, realloc \in BOOLEAN :
         IF \E i \in 1..Len(sources) : sources[i].url = u
         THEN /\ sources' = [i \in 1..Len(sources) |->
                               IF sources[i].url = u
                               THEN [sources[i] EXCEPT !.enabled = TRUE] ELSE sources[i]]
              /\ hist' = [hist EXCEPT !.edits = @ + 1]
         ELSE /\ sources' = Append(sources, Source(u, TRUE, -1))
              /\ hist' = [hist EXCEPT !.edits = @ + 1,
                                      !.stale = IF realloc /\ loc.enabled # <<>> THEN Slots ELSE @]
    /\ UNCHANGED <<remote, s, faults, disk, cancel, existing_files, phase, last,
                   running, runs, pc, loc, wk, dl, bz, failures, report, log>>

\* del_selected_btn and delete_selected (Ctrl+D, click on the row's end):
\* sources.erase( sources.begin() + selected ).
del_selected_btn(i) ==
    /\ running /\ hist.edits < MaxEdits /\ ~hist.wild
    /\ i \in 1..Len(sources)
    /\ sources' = SubSeq(sources, 1, i - 1) \o SubSeq(sources, i + 1, Len(sources))
    /\ hist' = [hist EXCEPT !.edits = @ + 1,
                            !.stale = IF loc.enabled = <<>> THEN @
                                      ELSE @ \cup { p \in Slots : p >= i }]
    /\ UNCHANGED <<remote, s, faults, disk, cancel, existing_files, phase, last,
                   running, runs, pc, loc, wk, dl, bz, failures, report, log>>

\* del_disabled_btn: erase( remove_if( !enabled ) ), from the first disabled
\* record on.
del_disabled_btn ==
    /\ running /\ hist.edits < MaxEdits /\ ~hist.wild
    /\ \E i \in 1..Len(sources) : ~sources[i].enabled
    /\ sources' = SelectSeq(sources, LAMBDA e : e.enabled)
    /\ LET first == CHOOSE i \in 1..Len(sources) :
                      /\ ~sources[i].enabled
                      /\ \A j \in 1..(i - 1) : sources[j].enabled
       IN  hist' = [hist EXCEPT !.edits = @ + 1,
                                !.stale = IF loc.enabled = <<>> THEN @
                                          ELSE @ \cup { p \in Slots : p >= first }]
    /\ UNCHANGED <<remote, s, faults, disk, cancel, existing_files, phase, last,
                   running, runs, pc, loc, wk, dl, bz, failures, report, log>>

\* toggle_selected (Space, click on the row): no structural change.
toggle_selected(i) ==
    /\ running /\ hist.edits < MaxEdits /\ ~hist.wild
    /\ i \in 1..Len(sources)
    /\ sources' = [sources EXCEPT ![i].enabled = ~@]
    /\ hist' = [hist EXCEPT !.edits = @ + 1]
    /\ UNCHANGED <<remote, s, faults, disk, cancel, existing_files, phase, last,
                   running, runs, pc, loc, wk, dl, bz, failures, report, log>>

\* The invalidated pointers the next step of item k dereferences
\* (worker_index: src; the download item: every candidate of its name), and,
\* for k = 0, those the runner dereferences in build_availability.
StalePtrs(k) ==
    IF k = 0
    THEN (IF pc = "recon"
          THEN { loc.indexed[i].src : i \in 1..Len(loc.indexed) } \cap hist.stale
          ELSE {})
    ELSE IF k \notin DOMAIN wk \/ wk[k] # "body" THEN {}
    ELSE IF loc.ph = "indexing" THEN {loc.items[k]} \cap hist.stale
    ELSE IF loc.ph = "downloading"
         THEN { loc.availability[loc.items[k]][j] :
                  j \in 1..Len(loc.availability[loc.items[k]]) } \cap hist.stale
    ELSE {}

\* A step that dereferences an invalidated pointer: the behaviour of the
\* program is undefined from there on and no thread is followed further.
WildAccess ==
    /\ ~hist.wild
    /\ \E k \in {0} \cup Slots : StalePtrs(k) # {}
    /\ hist' = [hist EXCEPT !.wild = TRUE]
    /\ pc' = "undefined"
    /\ wk' = <<>>
    /\ dl' = [n \in Names |-> DlOff]
    /\ UNCHANGED <<sources, remote, s, faults, disk, cancel, existing_files, phase,
                   last, running, runs, loc, bz, failures, report, log>>

\* Two sources, each enabled or not, a third url the user may add.
InitEdit ==
    /\ \E e1 \in BOOLEAN, e2 \in BOOLEAN :
         sources = Srcs(e1, e2)
    /\ remote = [u \in {UrlX, UrlY, UrlZ} |-> <<FileB>>]
    /\ s = Plain(MaxThreads, FALSE, FALSE, 1)
    /\ faults = FALSE
    /\ disk = EmptyDisk
    /\ cancel = FALSE
    /\ phase = [ph \in Phases |-> ZeroPhase]
    /\ Idle

SpecEdit ==
    InitEdit /\ [][\/ start_btn
                   \/ add_btn \/ del_disabled_btn
                   \/ \E i \in Slots : del_selected_btn(i) \/ toggle_selected(i)
                   \/ RunEntry \/ reset_phases \/ RunPre \/ IndexStart
                   \/ Poll \/ Launch \/ Join
                   \/ (StalePtrs(0) = {} /\ Recon)
                   \/ Store1 \/ Store2 \/ Store3 \/ Store4
                   \/ DownloadStart \/ AfterDownload \/ RunDone \/ RunnerExit
                   \/ \E k \in Slots :
                        \/ StalePtrs(k) = {} /\ worker_index(k)
                        \/ StalePtrs(k) = {} /\ DownloadBody(k)
                        \/ DownloadDone(k)
                   \/ \E n \in Names : DlHead(n) \/ DlPerform(n)
                   \/ WildAccess]_vars

\* C33: every source record that a worker reads or writes during a run is the
\* record that was enabled at the start of that run: the source list is not
\* structurally modified (no source deleted or added) by the UI thread
\* between the start of a run and its return, so no worker ever accesses a
\* removed or relocated record.
C33_NoAccessToMovedRecord == ~hist.wild


\* ------------------------------------------------ Start and Index, repeatedly
\* The runner lambda's end in two steps: running.store( false ), then the
\* thread returns. Between the two the flag is clear while the thread still
\* exists.
RunnerClear ==
    /\ pc = "ret"
    /\ running' = FALSE
    /\ pc' = "exit"
    /\ UNCHANGED <<sources, remote, s, faults, disk, cancel, existing_files, phase,
                   last, runs, loc, wk, dl, bz, failures, report, log, hist>>

RunnerReturn ==
    /\ pc = "exit"
    /\ pc' = "idle"
    /\ hist' = [hist EXCEPT !.active = @ - 1]
    /\ UNCHANGED <<sources, remote, s, faults, disk, cancel, existing_files, phase,
                   last, running, runs, loc, wk, dl, bz, failures, report, log>>

\* A handler that starts the new thread without joining the previous one.
PressUnjoined(mode) ==
    /\ ~running
    /\ runs <= MaxRuns
    /\ cancel' = FALSE
    /\ running' = TRUE
    /\ runs' = runs + 1
    /\ pc' = "entry"
    /\ loc' = [LocIdle EXCEPT !.mode = mode]
    /\ report' = "none"
    /\ hist' = [HistInit EXCEPT
                  !.lat0 = [i \in 1..Len(sources) |-> sources[i].last_latency_ms],
                  !.snap = disk, !.active = hist.active + 1]
    /\ UNCHANGED <<sources, remote, s, faults, disk, existing_files, phase, last,
                   wk, dl, bz, failures, log>>

\* start_btn / index_btn pressed at any moment, a second time too:
\* if ( running.load() ) return; cancel.store( false ); running.store( true );
\* if ( runner.joinable() ) runner.join(), which returns once the previous
\* thread has; then the new thread.
Press(mode) ==
    /\ ~running
    /\ runs <= MaxRuns
    /\ pc = "idle"
    /\ cancel' = FALSE
    /\ running' = TRUE
    /\ runs' = runs + 1
    /\ pc' = "entry"
    /\ loc' = [LocIdle EXCEPT !.mode = mode]
    /\ report' = "none"
    /\ hist' = [HistInit EXCEPT
                  !.lat0 = [i \in 1..Len(sources) |-> sources[i].last_latency_ms],
                  !.snap = disk, !.active = hist.active + 1]
    /\ UNCHANGED <<sources, remote, s, faults, disk, existing_files, phase, last,
                   wk, dl, bz, failures, log>>

SpecPress ==
    InitAgain /\ [][\/ Press("pipeline") \/ Press("index")
                    \/ RunEntry \/ reset_phases \/ RunPre \/ IndexStart
                    \/ Poll \/ Launch \/ Join
                    \/ Recon \/ Store1 \/ Store2 \/ Store3 \/ Store4
                    \/ DownloadStart \/ AfterDownload \/ DecompressStart
                    \/ DeleteStart \/ DeleteStep \/ RunDone
                    \/ RunnerClear \/ RunnerReturn
                    \/ Workers]_vars

\* C34: at most one run (full pipeline or index-only) executes at any time:
\* Start and Index are ignored while a run is active, and a new runner thread
\* is started only after the previous one has returned.
C34_OneRunAtATime ==
    /\ [](hist.active <= 1)
    /\ [](pc \notin {"idle", "exit"} => running)
    /\ [][runs' # runs => (~running /\ pc = "idle" /\ hist.active = 0)]_vars

\* The second run is executing, alone.
C34_Witness ==
    /\ runs = MaxRuns + 1
    /\ pc = "poll"
    /\ running
    /\ hist.active = 1

\* The flag is clear while the previous thread still exists.
C34_WitnessWindow ==
    /\ pc = "exit"
    /\ ~running
    /\ hist.active = 1


\* The download items launched so far in this run.
LaunchedItems == IF loc.ph = "downloading" THEN { k \in DOMAIN wk : wk[k] # "idle" } ELSE {}

\* name belongs on the worklist by the stated rule: an enabled source that
\* answered ok lists it, it passes the filter fields, and no file of that
\* name was present when the run scanned the target tree.
OnWorklist(name) ==
    /\ Listing(name) # {}
    /\ RulePasses(name, s.include_filters, s.exclude_filters)
    /\ name \notin ScanResult(hist.snap)

\* C35: within one run, the filenames for which a download worker is
\* launched form a subset of the worklist (listed by an available source,
\* passing the filter, absent from the local file set) and each filename is
\* launched at most once, so no two workers ever write the same destination
\* or .part path.
C35_LaunchedOnceFromWorklist ==
    /\ \A k \in LaunchedItems : OnWorklist(loc.items[k])
    /\ \A j \in LaunchedItems, k \in LaunchedItems : j # k => loc.items[j] # loc.items[k]
    /\ \A i \in 1..Len(hist.fetched), j \in 1..Len(hist.fetched) :
         i # j => hist.fetched[i].name # hist.fetched[j].name
    /\ \A i \in 1..Len(hist.fetched) : OnWorklist(hist.fetched[i].name)

\* Both listed files were launched, one after the other.
C35_Witness ==
    /\ Cardinality(LaunchedItems) = 2
    /\ Len(hist.fetched) = 2

\* The map is listed but excluded by the filter; the archive was launched.
C35_WitnessFiltered ==
    /\ s.exclude_filters = <<"a">>
    /\ Listing(FileA) # {}
    /\ Len(hist.fetched) = 1
    /\ hist.fetched[1].name = FileB
    /\ phase["downloading"].done = 1


\* C36: in every state in which the progress sink may read them (the run
\* panel loads them on every render), the four stored summary counters are
\* mutually consistent: last_already_have + last_to_download =
\* last_remote_after_filters, also while a later run is storing its new
\* counts.
C36_StoredCountsConsistent ==
    last.already_have + last.to_download = last.remote_after_filters

\* What the code gives: the stored counters are consistent whenever the
\* runner is not between its first and its last store.
C36_ConsistentOutsideStores ==
    pc \notin {"store3", "store4"} => C36_StoredCountsConsistent

\* The runner has stored all four counters of a run that found a file.
C36_WitnessStored ==
    /\ pc = "dl_start"
    /\ last.remote_after_filters >= 1
    /\ C36_StoredCountsConsistent

=============================================================================
